---- MODULE Spec2Model ----
(***************************************************************************)
(* Model of the window-based BLE scanner (scanner.js, held in src/reset.js *)
(* lines 612-926): the discover handler with its fingerprint, cache gate,  *)
(* ignore check, phone heuristics and insert, the scan-cycle scheduler and *)
(* the sqlite insert queue.                                                *)
(*                                                                         *)
(* JavaScript strings are sequences of one-character strings.  JavaScript  *)
(* values whose type varies (undefined / string / number / boolean /       *)
(* Buffer) are tagged records, see Undefined, Str, Num, Bool, Buf.          *)
(* Times are milliseconds, as returned by Date.now().                      *)
(***************************************************************************)
EXTENDS Integers, Sequences, FiniteSets, TLC

VARIABLES
    now,            \* Date.now(), ms since the process started
    nobleState,     \* noble.state
    radioOn,        \* the adapter is scanning and reports advertisements
    isScanning,     \* let isScanning                          (line 716)
    seenDevices,    \* const seenDevices = new Map()           (line 717)
    ignoredDevices, \* let ignoredDevices = new Set()          (line 654)
    intervals,      \* deadlines of the live setInterval(manageScanCycle) timers
    stopTimers,     \* deadlines of the pending setTimeout stop callbacks
    pending,        \* db.run statements queued and not yet executed
    rows,           \* rows of table scans
    delivered,      \* number of advertisements delivered so far
    unswept,        \* the map as it would be had no entry ever been swept (history)
    listened,       \* time spent scanning in the current period (history)
    ignoreFile,     \* ignore_list.json as it was read at startup
    store,          \* the database file's table and this process's handle
    process,        \* the process: running or exited, its shutdown callbacks
    reset,          \* the reset utility (reset.js), a process of its own
    ev              \* observation of the last handler that ran (history)

vars == <<now, nobleState, radioOn, isScanning, seenDevices, ignoredDevices,
          intervals, stopTimers, pending, rows, delivered, unswept, listened,
          ignoreFile, store, process, reset, ev>>

\* What the handlers of the scanner leave alone
lifecycle == <<ignoreFile, store, process, reset>>

-----------------------------------------------------------------------------
(* Program constants *)

SCAN_WINDOW_DURATION == 10000
SCAN_INTERVAL == 60000
DEVICE_MEMORY_DURATION == 5 * 60 * 1000
APPLE_ID == 76                       \* 0x004c

(* Bounds of the model *)

MaxStep == 50000     \* the clock advances by at most this much in one step
MaxTime == 360000    \* the clock stops here
MaxEvents == 2       \* advertisements delivered in one run
MaxIntervals == 2    \* live setInterval timers

-----------------------------------------------------------------------------
(* JavaScript values *)

Undefined == [t |-> "undefined"]
Str(s) == [t |-> "string", s |-> s]
Num(n) == [t |-> "number", n |-> n]
Bool(b) == [t |-> "boolean", b |-> b]
Buf(bytes) == [t |-> "buffer", b |-> bytes]

\* ToBoolean: undefined, '', 0 and false are falsy; every object (a Buffer,
\* also an empty one) is truthy.
Truthy(v) ==
    CASE v.t = "undefined" -> FALSE
      [] v.t = "string" -> Len(v.s) > 0
      [] v.t = "number" -> v.n # 0
      [] v.t = "boolean" -> v.b
      [] OTHER -> TRUE

\* a || b
OrElse(a, b) == IF Truthy(a) THEN a ELSE b

-----------------------------------------------------------------------------
(* Characters and strings *)

UpperCase == <<"A","B","C","D","E","F","G","H","I","J","K","L","M",
               "N","O","P","Q","R","S","T","U","V","W","X","Y","Z">>
LowerCase == <<"a","b","c","d","e","f","g","h","i","j","k","l","m",
               "n","o","p","q","r","s","t","u","v","w","x","y","z">>
HexDigits == <<"0","1","2","3","4","5","6","7","8","9","a","b","c","d","e","f">>

\* The characters the model uses, in UTF-16 code unit order.
CodeOrder == <<" ", "'", "(", ")", ",", "-", "/">>
             \o <<"0","1","2","3","4","5","6","7","8","9", ":">>
             \o UpperCase \o LowerCase \o <<"|">>

CodeOf(c) == CHOOSE i \in 1..Len(CodeOrder) : CodeOrder[i] = c

ToLowerChar(c) ==
    IF \E i \in 1..26 : UpperCase[i] = c
    THEN LowerCase[CHOOSE i \in 1..26 : UpperCase[i] = c]
    ELSE c

\* String.prototype.toLowerCase
toLowerCase(s) == [i \in 1..Len(s) |-> ToLowerChar(s[i])]

\* String.prototype.includes
includes(s, pat) ==
    \E i \in 1..(Len(s) - Len(pat) + 1) : SubSeq(s, i, i + Len(pat) - 1) = pat

\* Array.prototype.includes (strict equality on strings)
arrayIncludes(arr, x) == \E i \in 1..Len(arr) : arr[i] = x

\* Array.prototype.join
RECURSIVE join(_, _)
join(arr, sep) ==
    IF Len(arr) = 0 THEN <<>>
    ELSE IF Len(arr) = 1 THEN arr[1]
    ELSE arr[1] \o sep \o join(Tail(arr), sep)

\* a < b in the order Array.prototype.sort uses by default: code units,
\* a proper prefix first.
RECURSIVE StrLess(_, _)
StrLess(a, b) ==
    IF Len(b) = 0 THEN FALSE
    ELSE IF Len(a) = 0 THEN TRUE
    ELSE IF a[1] # b[1] THEN CodeOf(a[1]) < CodeOf(b[1])
    ELSE StrLess(Tail(a), Tail(b))

RECURSIVE InsertSorted(_, _)
InsertSorted(x, arr) ==
    IF Len(arr) = 0 THEN <<x>>
    ELSE IF StrLess(x, arr[1]) THEN <<x>> \o arr
    ELSE <<arr[1]>> \o InsertSorted(x, Tail(arr))

\* Array.prototype.sort() without a comparator (the result; the call also
\* replaces the array's contents by it).
RECURSIVE sort(_)
sort(arr) ==
    IF Len(arr) = 0 THEN <<>>
    ELSE InsertSorted(arr[1], sort(Tail(arr)))

\* Buffer.prototype.toString('hex')
RECURSIVE toHex(_)
toHex(bytes) ==
    IF Len(bytes) = 0 THEN <<>>
    ELSE <<HexDigits[(bytes[1] \div 16) + 1], HexDigits[(bytes[1] % 16) + 1]>>
         \o toHex(Tail(bytes))

\* Mutant: the two bytes read big-endian
readUInt16BE(bytes) == 256 * bytes[1] + bytes[2]

\* Buffer.prototype.readUInt16LE(0) of a buffer of at least two bytes
readUInt16LE(bytes) == bytes[1] + 256 * bytes[2]

\* crypto.createHash('md5').update(s).digest('hex'): the digest is a
\* function of the message alone; it is kept as the message in a wrapper.
md5(s) == <<"m","d","5","(">> \o s \o <<")">>

-----------------------------------------------------------------------------
(* Peripherals as noble delivers them *)

\* A peripheral: id, address, addressType, connectable, rssi and its
\* advertisement {localName, txPowerLevel, serviceUuids, manufacturerData}.
Peripheral(id, address, addressType, connectable, rssi, localName, tx, uuids, md) ==
    [id |-> id, address |-> address, addressType |-> addressType,
     connectable |-> connectable, rssi |-> rssi,
     advertisement |-> [localName |-> localName, txPowerLevel |-> tx,
                        serviceUuids |-> uuids, manufacturerData |-> md]]

NA == <<"N","/","A">>
ANCS_UUID == <<"7","9","0","5","f","4","3","1","b","5","c","e","4","e","9","9",
               "a","4","0","f","4","b","1","e","1","2","2","d","0","0","d","0">>
IPHONE == <<"i","p","h","o","n","e">>
PIXEL == <<"p","i","x","e","l">>

-----------------------------------------------------------------------------
(* generateDeviceFingerprint *)

\* Mutant: the address among the components
FingerprintComponentsWithAddress(peripheral) ==
    LET ad == peripheral.advertisement IN
    << OrElse(ad.localName, Str(<<>>)).s,
       IF Truthy(ad.manufacturerData) THEN toHex(ad.manufacturerData.b) ELSE <<>>,
       join(sort(ad.serviceUuids), <<",">>),
       peripheral.addressType,
       peripheral.address >>

\* Mutant: ?? for ||, an empty local name is kept and an absent one reads
\* N/A as it does in the insert
FingerprintComponentsNameNA(peripheral) ==
    LET ad == peripheral.advertisement IN
    << IF ad.localName.t = "undefined" THEN NA ELSE ad.localName.s,
       IF Truthy(ad.manufacturerData) THEN toHex(ad.manufacturerData.b) ELSE <<>>,
       join(sort(ad.serviceUuids), <<",">>),
       peripheral.addressType,
       IF peripheral.connectable
       THEN <<"t","r","u","e">> ELSE <<"f","a","l","s","e">> >>

\* Mutant: the service UUIDs joined as delivered, without sort()
FingerprintComponentsUnsorted(peripheral) ==
    LET ad == peripheral.advertisement IN
    << OrElse(ad.localName, Str(<<>>)).s,
       IF Truthy(ad.manufacturerData) THEN toHex(ad.manufacturerData.b) ELSE <<>>,
       join(ad.serviceUuids, <<",">>),
       peripheral.addressType,
       IF peripheral.connectable
       THEN <<"t","r","u","e">> ELSE <<"f","a","l","s","e">> >>

FingerprintComponents(peripheral) ==
    LET ad == peripheral.advertisement IN
    << OrElse(ad.localName, Str(<<>>)).s,
       IF Truthy(ad.manufacturerData) THEN toHex(ad.manufacturerData.b) ELSE <<>>,
       join(sort(ad.serviceUuids), <<",">>),
       peripheral.addressType,
       IF peripheral.connectable
       THEN <<"t","r","u","e">> ELSE <<"f","a","l","s","e">> >>

generateDeviceFingerprint(peripheral) ==
    md5(join(FingerprintComponents(peripheral), <<"|">>))

\* The peripheral after the call: (ad.serviceUuids || []).sort() sorts the
\* advertisement's own array.
AfterFingerprint(peripheral) ==
    [peripheral EXCEPT !.advertisement.serviceUuids = sort(@)]

-----------------------------------------------------------------------------
(* Filter logic of the discover handler *)

VendorRule(manufacturerData) ==
    /\ Truthy(manufacturerData)
    /\ Len(manufacturerData.b) >= 2
    /\ readUInt16LE(manufacturerData.b) = APPLE_ID

\* Mutant: the UUIDs compared in lower case
ServiceRuleAnyCase(serviceUuids) ==
    \E i \in 1..Len(serviceUuids) : toLowerCase(serviceUuids[i]) = ANCS_UUID

ServiceRule(serviceUuids) == arrayIncludes(serviceUuids, ANCS_UUID)

NameRule(localName) ==
    \/ includes(toLowerCase(localName), IPHONE)
    \/ includes(toLowerCase(localName), PIXEL)

\* Mutant: every rule is evaluated, without the !isLikelyPhone guards
FilterLogicAllRules(manufacturerData, serviceUuids, localName) ==
    LET p1 == VendorRule(manufacturerData)
        d1 == IF p1 THEN <<"Apple Manufacturer ID detected">> ELSE <<>>
        m2 == ServiceRule(serviceUuids)
        d2 == IF m2 THEN Append(d1, "ANCS Service UUID detected") ELSE d1
        m3 == NameRule(localName)
        d3 == IF m3 THEN Append(d2, "Local name match detected") ELSE d2
    IN [isLikelyPhone |-> p1 \/ m2 \/ m3, debug |-> d3]

\* isLikelyPhone and the DEBUG lines written on the way, for the handler's
\* locals manufacturerData, serviceUuids and localName.
FilterLogic(manufacturerData, serviceUuids, localName) ==
    LET p1 == VendorRule(manufacturerData)
        d1 == IF p1 THEN <<"Apple Manufacturer ID detected">> ELSE <<>>
        m2 == ~p1 /\ ServiceRule(serviceUuids)
        p2 == p1 \/ m2
        d2 == IF m2 THEN Append(d1, "ANCS Service UUID detected") ELSE d1
        m3 == ~p2 /\ NameRule(localName)
        p3 == p2 \/ m3
        d3 == IF m3 THEN Append(d2, "Local name match detected") ELSE d2
    IN [isLikelyPhone |-> p3, debug |-> d3]

\* Mutant: a device that is not connectable is never a phone
ClassifyConnectable(peripheral) ==
    LET ad == peripheral.advertisement
        f == FilterLogic(ad.manufacturerData, ad.serviceUuids,
                         OrElse(ad.localName, Str(NA)).s)
    IN [f EXCEPT !.isLikelyPhone = @ /\ peripheral.connectable]

\* The handler's locals for a peripheral (lines 783-793) fed to the filter.
Classify(peripheral) ==
    LET ad == peripheral.advertisement IN
    FilterLogic(ad.manufacturerData, ad.serviceUuids, OrElse(ad.localName, Str(NA)).s)

\* params of the insert (lines 844-855)
InsertParams(peripheral, fingerprint) ==
    LET ad == peripheral.advertisement IN
    [id |-> OrElse(Str(peripheral.id), Str(NA)),
     fingerprint |-> fingerprint,
     address |-> peripheral.address,
     address_type |-> OrElse(Str(peripheral.addressType), Str(NA)),
     connectable |-> OrElse(Bool(peripheral.connectable), Str(NA)),
     local_name |-> OrElse(ad.localName, Str(NA)),
     tx_power_level |-> ad.txPowerLevel,
     service_uuids |-> join(ad.serviceUuids, <<",">>),
     manufacturer_data |-> IF Truthy(ad.manufacturerData)
                           THEN toHex(ad.manufacturerData.b) ELSE NA,
     rssi |-> OrElse(Num(peripheral.rssi), Str(NA))]

-----------------------------------------------------------------------------
(* Inputs *)

ADDR_A == <<"4","a",":","1","0",":","9","c",":","0","0",":","5","e",":","0","1">>
ADDR_B == <<"6","f",":","3","3",":","2","b",":","7","7",":","0","d",":","c","2">>
ADDR_C == <<"a","a",":","b","b",":","c","c",":","d","d",":","e","e",":","f","f">>
ADDR_D == <<"0","0",":","1","1",":","2","2",":","3","3",":","4","4",":","5","5">>
PUBLIC == <<"p","u","b","l","i","c">>
RANDOM == <<"r","a","n","d","o","m">>
BATTERY_UUID == <<"1","8","0","f">>
DEVINFO_UUID == <<"1","8","0","a">>
BOBS_SPEAKER == <<"B","o","b","'","s"," ","S","p","e","a","k","e","r">>
PIXEL_7 == <<"P","i","x","e","l"," ","7">>
APPLE_PAYLOAD == <<76, 0, 16, 5>>

\* An Apple device seen under two rotating random addresses (the second one
\* is on the ignore list when there is one), a Pixel on a public address and
\* a speaker.
PhoneA == Peripheral(<<"a","1">>, ADDR_A, RANDOM, TRUE, -60, Undefined, Undefined,
                     <<>>, Buf(APPLE_PAYLOAD))
PhoneA2 == Peripheral(<<"b","2">>, ADDR_B, RANDOM, TRUE, -71, Undefined, Num(8),
                      <<>>, Buf(APPLE_PAYLOAD))
PixelC == Peripheral(<<"c","3">>, ADDR_C, PUBLIC, TRUE, -48, Str(PIXEL_7), Undefined,
                     <<BATTERY_UUID, DEVINFO_UUID>>, Undefined)
SpeakerD == Peripheral(<<"d","4">>, ADDR_D, PUBLIC, FALSE, -80, Str(BOBS_SPEAKER),
                       Num(4), <<>>, Undefined)

Peripherals == {PhoneA, PhoneA2, PixelC, SpeakerD}

\* ignore_list.json: absent, or an array of address strings.
IGNORE_B == <<"6","F",":","3","3",":","2","B",":","7","7",":","0","D",":","C","2">>
Arr(elements) == [t |-> "array", a |-> elements]
IgnoreFiles ==
    { [exists |-> FALSE],
      [exists |-> TRUE, json |-> TRUE, value |-> Arr(<<Str(IGNORE_B)>>)] }

\* Mutant: the entries kept as they are written
LoadIgnoreListAsWritten(file) ==
    IF ~file.exists THEN {}
    ELSE IF ~file.json THEN {}
    ELSE IF file.value.t # "array" THEN {}
    ELSE IF \E i \in 1..Len(file.value.a) : file.value.a[i].t # "string" THEN {}
    ELSE {file.value.a[i].s : i \in 1..Len(file.value.a)}

\* Mutant: an element that is not a string is left out, the strings are kept
LoadIgnoreListStringsOnly(file) ==
    IF ~file.exists THEN {}
    ELSE IF ~file.json THEN {}
    ELSE IF file.value.t # "array" THEN {}
    ELSE {toLowerCase(file.value.a[i].s) :
            i \in {k \in 1..Len(file.value.a) : file.value.a[k].t = "string"}}

\* The ignore list load (lines 657-674): the set ignoredDevices it leaves.
\* file.json: JSON.parse accepts the text; file.value: the value parsed.
\* JSON.parse of other text throws, and so does addr.toLowerCase() for an
\* element that is not a string, before the assignment of line 663; the
\* catch of line 671 goes on with the empty set of line 654.
LoadIgnoreList(file) ==
    IF ~file.exists THEN {}
    ELSE IF ~file.json THEN {}
    ELSE IF file.value.t # "array" THEN {}
    ELSE IF \E i \in 1..Len(file.value.a) : file.value.a[i].t # "string" THEN {}
    ELSE {toLowerCase(file.value.a[i].s) : i \in 1..Len(file.value.a)}

\* Table scans as line 685 creates it, and a database file without it
ScansTable ==
    [name |-> "scans",
     columns |-> <<"timestamp", "id", "fingerprint", "address", "address_type",
                   "connectable", "local_name", "tx_power_level", "service_uuids",
                   "manufacturer_data", "rssi">>,
     primaryKey |-> <<"timestamp", "fingerprint">>]
NoTable == [name |-> "none"]

\* The store once the database is open and the table created (lines 679-706)
StoreReady == [handle |-> "open", table |-> ScansTable, create |-> "done"]

\* The process before any signal; waitingStop: shutdown callbacks waiting for
\* noble's scanStop, closing: db.close calls not yet completed
ProcessRunning == [phase |-> "running", code |-> 0, waitingStop |-> 0, closing |-> 0]

\* The reset utility is not running
ResetIdle == [pc |-> "idle"]

Running == process.phase = "running"

NobleStates == {"poweredOn", "poweredOff"}

-----------------------------------------------------------------------------
(* State machine *)

NoEvent == [op |-> "none"]

\* new Map(), and Map.prototype.set
EmptyMap == [k \in {} |-> 0]
MapSet(map, key, value) ==
    [k \in DOMAIN map \cup {key} |-> IF k = key THEN value ELSE map[k]]

Init ==
    /\ now = 0
    /\ nobleState = "unknown"
    /\ radioOn = FALSE
    /\ isScanning = FALSE
    /\ seenDevices = EmptyMap
    /\ unswept = EmptyMap
    /\ ignoreFile \in IgnoreFiles
    /\ ignoredDevices = LoadIgnoreList(ignoreFile)
    /\ store = StoreReady
    /\ process = ProcessRunning
    /\ reset = ResetIdle
    /\ intervals = << >>
    /\ stopTimers = << >>
    /\ pending = << >>
    /\ rows = {}
    /\ delivered = 0
    /\ listened = [since |-> 0, ms |-> 0]
    /\ ev = NoEvent

Min(a, b) == IF a < b THEN a ELSE b

Deadlines == {intervals[i] : i \in DOMAIN intervals}
             \cup {stopTimers[i] : i \in DOMAIN stopTimers}

RemoveAt(seq, i) == SubSeq(seq, 1, i - 1) \o SubSeq(seq, i + 1, Len(seq))

\* History: a period starts when a scan window is opened SCAN_INTERVAL or
\* more after the start of the period before; listened.ms is the time the
\* adapter has been scanning since then, within SCAN_INTERVAL of that start.
PeriodAtOpen(l, t) ==
    IF t >= l.since + SCAN_INTERVAL THEN [since |-> t, ms |-> 0] ELSE l

ListenedUntil(l, from, to, scanning) ==
    LET end == Min(to, l.since + SCAN_INTERVAL) IN
    IF scanning /\ end > from THEN [l EXCEPT !.ms = @ + (end - from)] ELSE l

\* Time passes: by MaxStep at most, and never past a timer's deadline.  A due
\* timer fires and a queued statement is executed before the clock moves on.
\* The clock's origin is the first state notification of the adapter.
Tick ==
    /\ nobleState # "unknown"
    /\ pending = << >>
    /\ now < MaxTime
    /\ \A d \in Deadlines : d > now
    /\ now' = Min(now + MaxStep,
                  IF Deadlines = {} THEN now + MaxStep
                  ELSE CHOOSE d \in Deadlines : \A e \in Deadlines : d <= e)
    /\ listened' = ListenedUntil(listened, now, now', isScanning)
    /\ ev' = NoEvent
    /\ UNCHANGED <<nobleState, radioOn, isScanning, seenDevices, ignoredDevices, lifecycle,
                   intervals, stopTimers, pending, rows, delivered, unswept>>

\* Mutant: the entry itself, not its timestamp, compared with the cutoff
\* (an object is never < a number): nothing is deleted
CleanUpEntryCompared(map, cutoffTime) ==
    map

\* Mutant: the cutoff taken SCAN_INTERVAL, not DEVICE_MEMORY_DURATION, before
\* the current time
CleanUpByInterval(map, cutoffTime) ==
    [k \in {f \in DOMAIN map :
               ~(map[f].timestamp
                   < cutoffTime + DEVICE_MEMORY_DURATION - SCAN_INTERVAL)} |-> map[k]]

\* The cleanup loop of manageScanCycle (lines 911-916): the map without the
\* entries whose timestamp is before the cutoff.
CleanUp(map, cutoffTime) ==
    [k \in {f \in DOMAIN map : ~(map[f].timestamp < cutoffTime)} |-> map[k]]

\* Mutant: no setTimeout for the end of the window
manageScanCycleWithoutStop(state) ==
    IF state = "poweredOn" /\ ~isScanning
    THEN /\ radioOn' = TRUE
         /\ isScanning' = TRUE
         /\ seenDevices' = CleanUp(seenDevices, now - DEVICE_MEMORY_DURATION)
         /\ listened' = PeriodAtOpen(listened, now)
         /\ ev' = [op |-> "cycle", started |-> TRUE, at |-> now,
                   before |-> seenDevices]
         /\ UNCHANGED stopTimers
    ELSE /\ UNCHANGED <<radioOn, isScanning, seenDevices, stopTimers, listened>>
         /\ ev' = [op |-> "cycle", started |-> FALSE, at |-> now]

\* Mutant: no test of isScanning
manageScanCycleReentrant(state) ==
    IF state = "poweredOn"
    THEN /\ radioOn' = TRUE
         /\ isScanning' = TRUE
         /\ seenDevices' = CleanUp(seenDevices, now - DEVICE_MEMORY_DURATION)
         /\ stopTimers' = Append(stopTimers, now + SCAN_WINDOW_DURATION)
         /\ listened' = PeriodAtOpen(listened, now)
         /\ ev' = [op |-> "cycle", started |-> TRUE, at |-> now,
                   before |-> seenDevices]
    ELSE /\ UNCHANGED <<radioOn, isScanning, seenDevices, stopTimers, listened>>
         /\ ev' = [op |-> "cycle", started |-> FALSE, at |-> now]

\* manageScanCycle (lines 903-926) when noble.state is `state`
manageScanCycle(state) ==
    IF state = "poweredOn" /\ ~isScanning
    THEN /\ radioOn' = TRUE
         /\ isScanning' = TRUE
         /\ seenDevices' = CleanUp(seenDevices, now - DEVICE_MEMORY_DURATION)
         /\ stopTimers' = Append(stopTimers, now + SCAN_WINDOW_DURATION)
         /\ listened' = PeriodAtOpen(listened, now)
         /\ ev' = [op |-> "cycle", started |-> TRUE, at |-> now,
                   before |-> seenDevices]
    ELSE /\ UNCHANGED <<radioOn, isScanning, seenDevices, stopTimers, listened>>
         /\ ev' = [op |-> "cycle", started |-> FALSE, at |-> now]

\* Mutant: poweredOn only registers the interval; the first window waits for
\* its first tick
StateChangeWithoutCycle(state) ==
    /\ Running
    /\ state # nobleState
    /\ nobleState' = state
    /\ IF state = "poweredOn"
       THEN /\ Len(intervals) < MaxIntervals
            /\ intervals' = Append(intervals, now + SCAN_INTERVAL)
            /\ ev' = [op |-> "stateChange"]
            /\ UNCHANGED <<radioOn, isScanning, seenDevices, stopTimers, listened>>
       ELSE /\ radioOn' = FALSE
            /\ isScanning' = FALSE
            /\ ev' = [op |-> "stateChange"]
            /\ UNCHANGED <<seenDevices, stopTimers, intervals, listened>>
    /\ UNCHANGED <<now, ignoredDevices, lifecycle, pending, rows, delivered, unswept>>

\* noble.on('stateChange') (lines 720-730)
StateChange(state) ==
    /\ Running
    /\ state # nobleState
    /\ nobleState' = state
    /\ IF state = "poweredOn"
       THEN /\ Len(intervals) < MaxIntervals
            /\ manageScanCycle(state)
            /\ intervals' = Append(intervals, now + SCAN_INTERVAL)
       ELSE /\ radioOn' = FALSE
            /\ isScanning' = FALSE
            /\ ev' = [op |-> "stateChange"]
            /\ UNCHANGED <<seenDevices, stopTimers, intervals, listened>>
    /\ UNCHANGED <<now, ignoredDevices, lifecycle, pending, rows, delivered, unswept>>

\* A setInterval timer fires: manageScanCycle (line 724)
IntervalFire(i) ==
    /\ Running
    /\ intervals[i] <= now
    /\ intervals' = [intervals EXCEPT ![i] = @ + SCAN_INTERVAL]
    /\ manageScanCycle(nobleState)
    /\ UNCHANGED <<now, nobleState, ignoredDevices, lifecycle, pending, rows, delivered, unswept>>

\* Mutant: the map is swept when the window is closed
StopFireSweeping(i) ==
    /\ Running
    /\ stopTimers[i] <= now
    /\ stopTimers' = RemoveAt(stopTimers, i)
    /\ radioOn' = FALSE
    /\ isScanning' = FALSE
    /\ seenDevices' = CleanUp(seenDevices, now - DEVICE_MEMORY_DURATION)
    /\ ev' = [op |-> "stop", at |-> now]
    /\ UNCHANGED <<now, nobleState, ignoredDevices, lifecycle, intervals,
                   pending, rows, delivered, unswept, listened>>

\* The setTimeout callback of a scan window (lines 919-923)
StopFire(i) ==
    /\ Running
    /\ stopTimers[i] <= now
    /\ stopTimers' = RemoveAt(stopTimers, i)
    /\ radioOn' = FALSE
    /\ isScanning' = FALSE
    /\ ev' = [op |-> "stop", at |-> now]
    /\ UNCHANGED <<now, nobleState, seenDevices, ignoredDevices, lifecycle, intervals,
                   pending, rows, delivered, unswept, listened>>

\* Mutant: <= for <
SeenRecentlyInclusive(map, fingerprint, currentTime) ==
    /\ fingerprint \in DOMAIN map
    /\ (currentTime - map[fingerprint].timestamp) <= DEVICE_MEMORY_DURATION

\* Mutant: the scan interval for the memory duration
SeenWithinInterval(map, fingerprint, currentTime) ==
    /\ fingerprint \in DOMAIN map
    /\ (currentTime - map[fingerprint].timestamp) < SCAN_INTERVAL

\* Mutant: no test of the age of the entry
SeenEver(map, fingerprint, currentTime) == fingerprint \in DOMAIN map

\* The cache gate of the discover handler (lines 756-759): TRUE when the
\* handler returns at once.
SeenRecently(map, fingerprint, currentTime) ==
    /\ fingerprint \in DOMAIN map
    /\ (currentTime - map[fingerprint].timestamp) < DEVICE_MEMORY_DURATION

\* Mutant: the entry is set before the gate returns
AfterGateSliding(map, fingerprint, entry, suppressed) ==
    MapSet(map, fingerprint, entry)

\* The map after the gate: the handler returns at line 758 before the set of
\* line 762 when the device was seen recently.
AfterGate(map, fingerprint, entry, suppressed) ==
    IF suppressed THEN map ELSE MapSet(map, fingerprint, entry)

\* The entry written at lines 762-769
MemoryEntry(peripheral, currentTime) ==
    [timestamp |-> currentTime,
     details |-> [address |-> peripheral.address,
                  localName |-> peripheral.advertisement.localName,
                  rssi |-> peripheral.rssi]]

\* Mutant: no address is on the list
IsIgnoredNever(peripheral) == FALSE

\* lines 771-775
IsIgnored(peripheral) == toLowerCase(peripheral.address) \in ignoredDevices

\* Mutant: localName.toLowerCase() on the local name as delivered; for an
\* advertisement without one the TypeError ends the process
DiscoverUncaught(p) ==
    LET currentTime == now
        fingerprint == generateDeviceFingerprint(p)
        peripheral == AfterFingerprint(p)
        suppressed == SeenRecently(seenDevices, fingerprint, currentTime)
        ignored == IsIgnored(peripheral)
        filter == Classify(peripheral)
        insert == ~suppressed /\ ~ignored /\ filter.isLikelyPhone
        seen == [op |-> "discover", p |-> p, at |-> currentTime,
                 fingerprint |-> fingerprint, listening |-> isScanning]
    IN
    /\ Running
    /\ radioOn
    /\ delivered < MaxEvents
    /\ delivered' = delivered + 1
    /\ seenDevices' = AfterGate(seenDevices, fingerprint,
                                MemoryEntry(peripheral, currentTime), suppressed)
    /\ unswept' = AfterGate(unswept, fingerprint,
                            MemoryEntry(peripheral, currentTime),
                            SeenRecently(unswept, fingerprint, currentTime))
    /\ IF suppressed
       THEN /\ ev' = seen @@ [stage |-> "suppressed", debug |-> << >>]
            /\ UNCHANGED pending
       ELSE /\ IF ignored
               THEN /\ ev' = seen @@ [stage |-> "ignored", debug |-> << >>]
                    /\ UNCHANGED pending
               ELSE IF filter.isLikelyPhone
               THEN /\ ev' = seen @@ [stage |-> "inserted", debug |-> filter.debug]
                    /\ pending' = Append(pending, InsertParams(peripheral, fingerprint))
               ELSE /\ ev' = seen @@ [stage |-> "notPhone", debug |-> filter.debug]
                    /\ UNCHANGED pending
    /\ process' = IF ~suppressed /\ ~ignored /\ p.advertisement.localName = Undefined
                   THEN [process EXCEPT !.phase = "exited", !.code = 1]
                   ELSE process
    /\ UNCHANGED <<now, nobleState, radioOn, isScanning, ignoredDevices, ignoreFile,
                   store, reset, intervals, stopTimers, rows, listened>>

\* Mutant: the ignore list is consulted before the gate; an ignored
\* advertisement leaves the map alone
DiscoverIgnoreFirst(p) ==
    LET currentTime == now
        fingerprint == generateDeviceFingerprint(p)
        peripheral == AfterFingerprint(p)
        ignored == IsIgnored(peripheral)
        suppressed == ignored \/ SeenRecently(seenDevices, fingerprint, currentTime)
        filter == Classify(peripheral)
        insert == ~suppressed /\ ~ignored /\ filter.isLikelyPhone
        seen == [op |-> "discover", p |-> p, at |-> currentTime,
                 fingerprint |-> fingerprint, listening |-> isScanning]
    IN
    /\ Running
    /\ radioOn
    /\ delivered < MaxEvents
    /\ delivered' = delivered + 1
    /\ seenDevices' = AfterGate(seenDevices, fingerprint,
                                MemoryEntry(peripheral, currentTime), suppressed)
    /\ unswept' = AfterGate(unswept, fingerprint,
                            MemoryEntry(peripheral, currentTime),
                            SeenRecently(unswept, fingerprint, currentTime))
    /\ IF suppressed
       THEN /\ ev' = seen @@ [stage |-> IF ignored THEN "ignored" ELSE "suppressed",
                              debug |-> << >>]
            /\ UNCHANGED pending
       ELSE /\ IF ignored
               THEN /\ ev' = seen @@ [stage |-> "ignored", debug |-> << >>]
                    /\ UNCHANGED pending
               ELSE IF filter.isLikelyPhone
               THEN /\ ev' = seen @@ [stage |-> "inserted", debug |-> filter.debug]
                    /\ pending' = Append(pending, InsertParams(peripheral, fingerprint))
               ELSE /\ ev' = seen @@ [stage |-> "notPhone", debug |-> filter.debug]
                    /\ UNCHANGED pending
    /\ UNCHANGED <<now, nobleState, radioOn, isScanning, ignoredDevices, lifecycle, intervals,
                   stopTimers, rows, listened>>

\* noble.on('discover') (lines 751-877) for the peripheral p
Discover(p) ==
    LET currentTime == now
        fingerprint == generateDeviceFingerprint(p)
        peripheral == AfterFingerprint(p)
        suppressed == SeenRecently(seenDevices, fingerprint, currentTime)
        ignored == IsIgnored(peripheral)
        filter == Classify(peripheral)
        insert == ~suppressed /\ ~ignored /\ filter.isLikelyPhone
        seen == [op |-> "discover", p |-> p, at |-> currentTime,
                 fingerprint |-> fingerprint, listening |-> isScanning]
    IN
    /\ Running
    /\ radioOn
    /\ delivered < MaxEvents
    /\ delivered' = delivered + 1
    /\ seenDevices' = AfterGate(seenDevices, fingerprint,
                                MemoryEntry(peripheral, currentTime), suppressed)
    /\ unswept' = AfterGate(unswept, fingerprint,
                            MemoryEntry(peripheral, currentTime),
                            SeenRecently(unswept, fingerprint, currentTime))
    /\ IF suppressed
       THEN /\ ev' = seen @@ [stage |-> "suppressed", debug |-> << >>]
            /\ UNCHANGED pending
       ELSE /\ IF ignored
               THEN /\ ev' = seen @@ [stage |-> "ignored", debug |-> << >>]
                    /\ UNCHANGED pending
               ELSE IF filter.isLikelyPhone
               THEN /\ ev' = seen @@ [stage |-> "inserted", debug |-> filter.debug]
                    /\ pending' = Append(pending, InsertParams(peripheral, fingerprint))
               ELSE /\ ev' = seen @@ [stage |-> "notPhone", debug |-> filter.debug]
                    /\ UNCHANGED pending
    /\ UNCHANGED <<now, nobleState, radioOn, isScanning, ignoredDevices, lifecycle, intervals,
                   stopTimers, rows, listened>>

\* Mutant: a table without the primary key
KeyNeverExists(table, timestamp, fingerprint) == FALSE

\* The PRIMARY KEY (timestamp, fingerprint) of table scans (line 697)
KeyExists(table, timestamp, fingerprint) ==
    \E r \in table : r.timestamp = timestamp /\ r.fingerprint = fingerprint

\* Mutant: a callback that prints nothing
DbRunSilent(fails) ==
    /\ Running
    /\ pending # << >>
    /\ store.handle \in {"open", "closing"}
    /\ LET params == Head(pending)
           timestamp == now \div 1000
           row == params @@ [timestamp |-> timestamp]
           code == IF fails \/ store.table # ScansTable THEN "SQLITE_ERROR"
                   ELSE IF KeyExists(rows, timestamp, params.fingerprint)
                   THEN "SQLITE_CONSTRAINT"
                   ELSE "OK"
       IN /\ rows' = IF code = "OK" THEN rows \cup {row} ELSE rows
          /\ ev' = [op |-> "dbRun", params |-> params, code |-> code,
                    logged |-> FALSE]
    /\ pending' = Tail(pending)
    /\ UNCHANGED <<now, nobleState, radioOn, isScanning, seenDevices, ignoredDevices, lifecycle,
                   intervals, stopTimers, delivered, unswept, listened>>

\* sqlite executes the oldest queued insert and calls its callback (lines
\* 858-868).  timestamp defaults to CURRENT_TIMESTAMP, which has a resolution
\* of one second.  `fails`: the statement fails for a reason other than the
\* primary key (SQLITE_BUSY, SQLITE_IOERR, ...); it also fails when the file
\* has no table scans.  A statement issued before the database is open waits
\* in the handle's queue.
DbRun(fails) ==
    /\ Running
    /\ pending # << >>
    /\ store.handle \in {"open", "closing"}
    /\ LET params == Head(pending)
           timestamp == now \div 1000
           row == params @@ [timestamp |-> timestamp]
           code == IF fails \/ store.table # ScansTable THEN "SQLITE_ERROR"
                   ELSE IF KeyExists(rows, timestamp, params.fingerprint)
                   THEN "SQLITE_CONSTRAINT"
                   ELSE "OK"
       IN /\ rows' = IF code = "OK" THEN rows \cup {row} ELSE rows
          /\ ev' = [op |-> "dbRun", params |-> params, code |-> code,
                    logged |-> code # "OK" /\ code # "SQLITE_CONSTRAINT"]
    /\ pending' = Tail(pending)
    /\ UNCHANGED <<now, nobleState, radioOn, isScanning, seenDevices, ignoredDevices, lifecycle,
                   intervals, stopTimers, delivered, unswept, listened>>

\* The callback of new sqlite3.Database (lines 679-706): an error is printed
\* and nothing else is done; without error the CREATE TABLE is issued.
DbOpen(ok) ==
    /\ Running
    /\ store.handle = "opening"
    /\ store' = IF ok THEN [store EXCEPT !.handle = "open", !.create = "queued"]
                 ELSE [store EXCEPT !.handle = "failed"]
    /\ ev' = [op |-> "dbOpen", ok |-> ok, logged |-> ~ok]
    /\ UNCHANGED <<now, nobleState, radioOn, isScanning, seenDevices, ignoredDevices,
                   intervals, stopTimers, pending, rows, delivered, unswept, listened,
                   ignoreFile, process, reset>>

\* sqlite executes CREATE TABLE IF NOT EXISTS scans and calls the callback
\* (lines 685-704): an error is printed and nothing else is done.
CreateRun(ok) ==
    /\ Running
    /\ store.handle = "open"
    /\ store.create = "queued"
    /\ store' = IF ok THEN [store EXCEPT !.table = ScansTable, !.create = "done"]
                 ELSE [store EXCEPT !.create = "failed"]
    /\ ev' = [op |-> "createRun", ok |-> ok, logged |-> ~ok]
    /\ UNCHANGED <<now, nobleState, radioOn, isScanning, seenDevices, ignoredDevices,
                   intervals, stopTimers, pending, rows, delivered, unswept, listened,
                   ignoreFile, process, reset>>

Next ==
    \/ Tick
    \/ \E state \in NobleStates : StateChange(state)
    \/ \E i \in DOMAIN intervals : IntervalFire(i)
    \/ \E i \in DOMAIN stopTimers : StopFire(i)
    \/ \E p \in Peripherals : Discover(p)
    \/ \E fails \in BOOLEAN : DbRun(fails)

Spec == Init /\ [][Next]_vars

\* The scanner beside an adapter that becomes ready and stays ready.
NextReady ==
    \/ Tick
    \/ StateChange("poweredOn")
    \/ \E i \in DOMAIN intervals : IntervalFire(i)
    \/ \E i \in DOMAIN stopTimers : StopFire(i)
    \/ \E p \in Peripherals : Discover(p)
    \/ \E fails \in BOOLEAN : DbRun(fails)

SpecReady == Init /\ [][NextReady]_vars

\* The scanner started on a database file that an earlier run of it has
\* written: table scans (CREATE TABLE IF NOT EXISTS, line 685) may hold a row
\* of the Apple device, stored in the second in which this run starts.
EarlierRow ==
    LET p == [PhoneA EXCEPT !.rssi = -90] IN
    InsertParams(AfterFingerprint(p), generateDeviceFingerprint(p))
      @@ [timestamp |-> 0]

InitRestart ==
    /\ now = 0
    /\ nobleState = "unknown"
    /\ radioOn = FALSE
    /\ isScanning = FALSE
    /\ seenDevices = EmptyMap
    /\ unswept = EmptyMap
    /\ ignoreFile \in IgnoreFiles
    /\ ignoredDevices = LoadIgnoreList(ignoreFile)
    /\ store = StoreReady
    /\ process = ProcessRunning
    /\ reset = ResetIdle
    /\ intervals = << >>
    /\ stopTimers = << >>
    /\ pending = << >>
    /\ rows \in {{}, {EarlierRow}}
    /\ delivered = 0
    /\ listened = [since |-> 0, ms |-> 0]
    /\ ev = NoEvent

SpecRestart == InitRestart /\ [][NextReady]_vars

\* The start of the process: the database is being opened (the file may or
\* may not hold table scans already) while the adapter reports its state and
\* the first advertisements arrive.
InitStartup ==
    /\ now = 0
    /\ nobleState = "unknown"
    /\ radioOn = FALSE
    /\ isScanning = FALSE
    /\ seenDevices = EmptyMap
    /\ unswept = EmptyMap
    /\ ignoreFile \in IgnoreFiles
    /\ ignoredDevices = LoadIgnoreList(ignoreFile)
    /\ intervals = << >>
    /\ stopTimers = << >>
    /\ pending = << >>
    /\ rows = {}
    /\ delivered = 0
    /\ listened = [since |-> 0, ms |-> 0]
    /\ store \in {[handle |-> "opening", table |-> t, create |-> "none"] :
                    t \in {NoTable, ScansTable}}
    /\ process = ProcessRunning
    /\ reset = ResetIdle
    /\ ev = NoEvent

NextStartup ==
    \/ \E ok \in BOOLEAN : DbOpen(ok)
    \/ \E ok \in BOOLEAN : CreateRun(ok)
    \/ StateChange("poweredOn")
    \/ \E p \in Peripherals : Discover(p)
    \/ \E fails \in BOOLEAN : DbRun(fails)

SpecStartup == InitStartup /\ [][NextStartup]_vars

\* The scheduler alone, beside an adapter that is switched on and off: no
\* advertisement is delivered.
NextSched ==
    \/ Tick
    \/ \E state \in NobleStates : StateChange(state)
    \/ \E i \in DOMAIN intervals : IntervalFire(i)
    \/ \E i \in DOMAIN stopTimers : StopFire(i)

SpecSched == Init /\ [][NextSched]_vars

\* The event loop runs a timer's callback once the timer is due, and time
\* passes.
FairSched ==
    /\ SpecSched
    /\ WF_vars(Tick)
    /\ WF_vars(\E i \in DOMAIN intervals : IntervalFire(i))
    /\ WF_vars(\E i \in DOMAIN stopTimers : StopFire(i))

-----------------------------------------------------------------------------
(* The filter and the fingerprint on a wide range of advertisements: one    *)
(* advertisement, drawn at the start, is delivered in the first scan window *)

ANCS_UPPER == <<"7","9","0","5","F","4","3","1","B","5","C","E","4","E","9","9",
                "A","4","0","F","4","B","1","E","1","2","2","D","0","0","D","0">>
ANCS_MIXED == <<"7","9","0","5","F","4","3","1","b","5","c","e","4","e","9","9",
                "a","4","0","f","4","b","1","e","1","2","2","d","0","0","d","0">>

InputNames ==
    { Undefined, Str(<< >>), Str(BOBS_SPEAKER), Str(PIXEL_7),
      Str(<<"i","P","h","o","n","e">>),
      Str(<<"M","Y"," ","I","P","H","O","N","E">>),
      Str(<<"P","i","x","e"," ","l">>) }

InputPayloads ==
    { Undefined, Buf(<< >>), Buf(<<76>>), Buf(<<76, 0>>), Buf(APPLE_PAYLOAD),
      Buf(<<0, 76>>), Buf(<<76, 1, 2>>), Buf(<<6, 0, 1>>) }

InputUuids ==
    { << >>, <<BATTERY_UUID>>, <<ANCS_UUID>>, <<ANCS_UPPER>>, <<ANCS_MIXED>>,
      <<BATTERY_UUID, ANCS_UUID>>, <<ANCS_UUID, DEVINFO_UUID>>,
      <<DEVINFO_UUID, ANCS_UPPER, BATTERY_UUID>> }

\* id, address, addressType, connectable, rssi, txPowerLevel
InputOthers ==
    { <<<<"a","1">>, ADDR_A, RANDOM, TRUE, -60, Undefined>>,
      <<<<"b","2">>, ADDR_B, RANDOM, FALSE, -71, Num(8)>>,
      <<<<"d","4">>, ADDR_D, PUBLIC, TRUE, 0, Num(-4)>> }

ClassifierInputs ==
    { Peripheral(o[1], o[2], o[3], o[4], o[5], n, o[6], u, m) :
        o \in InputOthers, n \in InputNames, u \in InputUuids, m \in InputPayloads }

\* The first scan window, as StateChange("poweredOn") leaves it, and one
\* advertisement about to be delivered.
InitClassify ==
    /\ now = 0
    /\ nobleState = "poweredOn"
    /\ radioOn = TRUE
    /\ isScanning = TRUE
    /\ seenDevices = EmptyMap
    /\ unswept = EmptyMap
    /\ ignoreFile \in IgnoreFiles
    /\ ignoredDevices = LoadIgnoreList(ignoreFile)
    /\ store = StoreReady
    /\ process = ProcessRunning
    /\ reset = ResetIdle
    /\ intervals = <<SCAN_INTERVAL>>
    /\ stopTimers = <<SCAN_WINDOW_DURATION>>
    /\ pending = << >>
    /\ rows = {}
    /\ delivered = 0
    /\ listened = [since |-> 0, ms |-> 0]
    /\ ev \in {[op |-> "input", p |-> p] : p \in ClassifierInputs}

NextClassify ==
    \/ ev.op = "input" /\ Discover(ev.p)
    \/ \E fails \in BOOLEAN : DbRun(fails)

SpecClassify == InitClassify /\ [][NextClassify]_vars

-----------------------------------------------------------------------------
(* Properties *)

\* A step of the discover handler
DiscoverStep == ev'.op = "discover" /\ delivered' = delivered + 1

\* The digest has a memory entry younger than the horizon at time t
EntryYoungerThanHorizon(map, fingerprint, t) ==
    /\ fingerprint \in DOMAIN map
    /\ t - map[fingerprint].timestamp < DEVICE_MEMORY_DURATION

\* The heuristics mark the peripheral as a phone and its address is not on
\* the ignore list
Qualifies(p) ==
    /\ Classify(p).isLikelyPhone
    /\ toLowerCase(p.address) \notin ignoredDevices

\* C1: once a sighting of a digest has been processed, an advertisement with
\* the same digest less than DEVICE_MEMORY_DURATION later sends no record and
\* stores none; one that arrives when the horizon has elapsed, from a phone
\* whose address is not ignored, sends exactly one record, for that digest.
C1_DedupWithinHorizon ==
    [][DiscoverStep =>
        LET fp == ev'.fingerprint
            known == fp \in DOMAIN seenDevices
        IN /\ (known /\ now - seenDevices[fp].timestamp < DEVICE_MEMORY_DURATION)
                => (pending' = pending /\ rows' = rows)
           /\ (known /\ now - seenDevices[fp].timestamp >= DEVICE_MEMORY_DURATION /\ Qualifies(ev'.p))
                => /\ Len(pending') = Len(pending) + 1
                   /\ SubSeq(pending', 1, Len(pending)) = pending
                   /\ pending'[Len(pending')].fingerprint = fp
                   /\ rows' = rows]_vars

\* A record is stored for the digest, and a later sighting of it, after the
\* horizon, has just sent another one.
C1_Witness ==
    /\ ev.op = "discover"
    /\ ev.stage = "inserted"
    /\ \E r \in rows : r.fingerprint = ev.fingerprint
                       /\ ev.at - r.timestamp * 1000 > DEVICE_MEMORY_DURATION

\* The peripheral with another address, id, signal strength and transmit
\* power, and with its service UUIDs in the opposite order
Reverse(seq) == [i \in 1..Len(seq) |-> seq[Len(seq) + 1 - i]]
Rotated(p) ==
    { [p EXCEPT !.address = a, !.id = i, !.rssi = r,
                !.advertisement.txPowerLevel = tx,
                !.advertisement.serviceUuids = u] :
        a \in {ADDR_A, ADDR_B, ADDR_C}, i \in {<<"a","1">>, <<"z","9">>},
        r \in {-60, -95, 0}, tx \in {Undefined, Num(8)},
        u \in {p.advertisement.serviceUuids, Reverse(p.advertisement.serviceUuids)} }

AbsDiff(a, b) == IF a < b THEN b - a ELSE a - b

\* C2: the digest does not depend on the address, the signal strength, the
\* transmit power or the id: every advertisement that differs from the one
\* observed in these only has its digest; and the store never holds two
\* records of one digest taken less than DEVICE_MEMORY_DURATION apart.
C2_AddressIndependentDedup ==
    /\ ev.op = "discover"
         => \A q \in Rotated(ev.p) : generateDeviceFingerprint(q) = ev.fingerprint
    /\ \A r1, r2 \in rows :
         (r1 # r2 /\ r1.fingerprint = r2.fingerprint)
           => AbsDiff(r1.timestamp, r2.timestamp) * 1000 >= DEVICE_MEMORY_DURATION

\* A record of the device under one address is stored, and its advertisement
\* from another address has just been suppressed.
C2_Witness ==
    /\ ev.op = "discover"
    /\ ev.stage = "suppressed"
    /\ \E r \in rows : r.fingerprint = ev.fingerprint /\ r.address # ev.p.address

\* C3 as claimed: an advertisement of a phone, from an address that is not
\* ignored, observed in a scan window when no record of its digest has been
\* stored (or is queued) in the preceding DEVICE_MEMORY_DURATION, sends a
\* record.
C3_Original ==
    (/\ ev.op = "discover"
     /\ ev.listening
     /\ Qualifies(ev.p)
     /\ ~\E r \in rows : r.fingerprint = ev.fingerprint
                         /\ ev.at - r.timestamp * 1000 < DEVICE_MEMORY_DURATION)
    => \/ ev.stage = "inserted"
       \/ \E i \in DOMAIN pending : pending[i].fingerprint = ev.fingerprint

\* C3 (amended): an advertisement of a phone, from an address that is not
\* ignored, observed in a scan window when no advertisement of its digest
\* has passed the cache gate in the preceding DEVICE_MEMORY_DURATION, sends
\* exactly one record, which carries its digest and address; and a statement
\* that executes without failure stores exactly that record.
C3_QualifyingSightingRecorded ==
    [][/\ (DiscoverStep /\ isScanning /\ Qualifies(ev'.p)
           /\ ~EntryYoungerThanHorizon(seenDevices, ev'.fingerprint, now))
          => /\ Len(pending') = Len(pending) + 1
             /\ SubSeq(pending', 1, Len(pending)) = pending
             /\ pending'[Len(pending')].fingerprint = ev'.fingerprint
             /\ pending'[Len(pending')].address = ev'.p.address
       /\ (ev'.op = "dbRun" /\ pending' # pending /\ ev'.code = "OK")
          => /\ Cardinality(rows') = Cardinality(rows) + 1
             /\ \E r \in rows' \ rows :
                  /\ r.fingerprint = Head(pending).fingerprint
                  /\ r.address = Head(pending).address]_vars

\* The record of a qualifying sighting has been stored.
C3_Witness ==
    /\ ev.op = "dbRun"
    /\ ev.code = "OK"
    /\ \E r \in rows : r.fingerprint = ev.params.fingerprint
                       /\ r.timestamp * 1000 = now

\* C4: the handler returns at the gate if and only if the digest has an
\* entry with now - timestamp < DEVICE_MEMORY_DURATION; otherwise (no entry,
\* or an entry of DEVICE_MEMORY_DURATION or older) the entry of the digest is
\* created or refreshed with timestamp = now.
C4_CacheDecisionRule ==
    [][DiscoverStep =>
        LET fp == ev'.fingerprint
            fresh == /\ fp \in DOMAIN seenDevices
                     /\ now - seenDevices[fp].timestamp < DEVICE_MEMORY_DURATION
        IN /\ (ev'.stage = "suppressed") <=> fresh
           /\ ~fresh => /\ fp \in DOMAIN seenDevices'
                        /\ seenDevices'[fp].timestamp = now]_vars

\* A sighting exactly DEVICE_MEMORY_DURATION after the stored one was
\* processed.
C4_Witness ==
    /\ ev.op = "discover"
    /\ ev.stage # "suppressed"
    /\ seenDevices[ev.fingerprint].timestamp = ev.at
    /\ \E r \in rows : r.fingerprint = ev.fingerprint
                       /\ ev.at - r.timestamp * 1000 = DEVICE_MEMORY_DURATION

\* C5 as claimed: every sighting, suppressed or not, leaves the entry of its
\* digest with the time of the sighting.
C5_Original ==
    ev.op = "discover" => seenDevices[ev.fingerprint].timestamp = ev.at

\* C5 (amended): the horizon is fixed, not sliding: a suppressed sighting
\* leaves the map as it was, only a sighting that passes the gate sets the
\* entry's timestamp, and a sighting is suppressed only while less than
\* DEVICE_MEMORY_DURATION has passed since the last sighting that passed.
C5_FixedHorizon ==
    [][DiscoverStep =>
        /\ (ev'.stage = "suppressed")
             => /\ seenDevices' = seenDevices
                /\ now < seenDevices[ev'.fingerprint].timestamp + DEVICE_MEMORY_DURATION
        /\ (ev'.stage # "suppressed")
             => seenDevices'[ev'.fingerprint].timestamp = now]_vars

\* A sighting was suppressed and the entry keeps the earlier time.
C5_Witness ==
    /\ ev.op = "discover"
    /\ ev.stage = "suppressed"
    /\ seenDevices[ev.fingerprint].timestamp < ev.at

\* C6: right after the cleanup of a scan cycle that starts at time now, no
\* entry of the map has a timestamp before now - DEVICE_MEMORY_DURATION.
C6_EvictionPostCondition ==
    (ev.op = "cycle" /\ ev.started)
    => \A f \in DOMAIN seenDevices :
           seenDevices[f].timestamp >= ev.at - DEVICE_MEMORY_DURATION

\* A cleanup has removed an entry and kept one that is exactly
\* DEVICE_MEMORY_DURATION old.
C6_Witness ==
    /\ ev.op = "cycle"
    /\ ev.started
    /\ DOMAIN ev.before \ DOMAIN seenDevices # {}
    /\ \E f \in DOMAIN seenDevices :
         seenDevices[f].timestamp = ev.at - DEVICE_MEMORY_DURATION

-----------------------------------------------------------------------------
(* Properties of the filter logic *)

\* The handler ran the filter on the advertisement: it was neither stopped
\* at the gate nor ignored
Classified == ev.op = "discover" /\ ev.stage \in {"inserted", "notPhone"}

\* The three rules, from the fields of the advertisement
VendorMatches(p) ==
    LET md == p.advertisement.manufacturerData IN
    /\ md.t = "buffer"
    /\ Len(md.b) >= 2
    /\ md.b[1] = 76
    /\ md.b[2] = 0

ServiceMatches(p) ==
    \E i \in DOMAIN p.advertisement.serviceUuids :
        p.advertisement.serviceUuids[i] = ANCS_UUID

ContainsIgnoringCase(s, pat) ==
    \E i \in 0..(Len(s) - Len(pat)) :
        \A j \in 1..Len(pat) : ToLowerChar(s[i + j]) = pat[j]

NameMatches(p) ==
    LET name == p.advertisement.localName IN
    /\ name.t = "string"
    /\ \/ ContainsIgnoringCase(name.s, IPHONE)
       \/ ContainsIgnoringCase(name.s, PIXEL)

\* C7: the rules are tried in the order manufacturer id, service UUID, local
\* name, and the one DEBUG line written is that of the first rule that
\* matches: none of a later rule, none at all when no rule matches.
C7_ClassifierOrdering ==
    Classified =>
        ev.debug = IF VendorMatches(ev.p) THEN <<"Apple Manufacturer ID detected">>
                   ELSE IF ServiceMatches(ev.p) THEN <<"ANCS Service UUID detected">>
                   ELSE IF NameMatches(ev.p) THEN <<"Local name match detected">>
                   ELSE << >>

\* An advertisement with Apple's manufacturer id and a matching name was
\* reported for the manufacturer id only.
C7_Witness ==
    /\ Classified
    /\ VendorMatches(ev.p)
    /\ NameMatches(ev.p)
    /\ ev.debug = <<"Apple Manufacturer ID detected">>

\* C8: an advertisement is taken for a phone, and a record is sent, if and
\* only if one of the three rules matches; otherwise nothing is sent.
C8_ClassifierResult ==
    Classified =>
        /\ (ev.stage = "inserted")
             <=> (VendorMatches(ev.p) \/ ServiceMatches(ev.p) \/ NameMatches(ev.p))
        /\ (ev.stage = "inserted")
             => (Len(pending) = 1 /\ pending[1].fingerprint = ev.fingerprint)
        /\ (ev.stage = "notPhone") => (pending = << >> /\ rows = {})

\* Payload 4c 00 ... alone made a phone of the advertisement.
C8_Witness ==
    /\ Classified
    /\ ev.stage = "inserted"
    /\ ev.p.advertisement.manufacturerData = Buf(APPLE_PAYLOAD)
    /\ ~ServiceMatches(ev.p)
    /\ ~NameMatches(ev.p)

\* The advertisement with other values of the fields the rules do not read
OtherFields(p) ==
    { [p EXCEPT !.address = a, !.addressType = k, !.connectable = c, !.rssi = r,
                !.advertisement.txPowerLevel = tx] :
        a \in {ADDR_A, ADDR_C}, k \in {PUBLIC, RANDOM}, c \in BOOLEAN,
        r \in {-60, 0}, tx \in {Undefined, Num(8)} }

\* C9: the decision depends on manufacturerData, serviceUuids and localName
\* only: every advertisement that agrees with the one observed on these three
\* gets the decision the handler took.
C9_ClassifierIndependence ==
    Classified =>
        \A q \in OtherFields(ev.p) :
            Classify(q).isLikelyPhone = (ev.stage = "inserted")

\* A phone was found in an advertisement that is not connectable.
C9_Witness ==
    /\ Classified
    /\ ev.stage = "inserted"
    /\ ~ev.p.connectable

\* The ANCS UUID in some letter case is among the service UUIDs
HasAncsAnyCase(p) ==
    \E i \in DOMAIN p.advertisement.serviceUuids :
        toLowerCase(p.advertisement.serviceUuids[i]) = ANCS_UUID

\* C10 as claimed: an advertisement with the ANCS UUID in any letter case is
\* taken for a phone.
C10_Original == (Classified /\ HasAncsAnyCase(ev.p)) => ev.stage = "inserted"

\* C10 (amended): the service rule matches the lower-case spelling of the
\* ANCS UUID only: an advertisement that has it is a phone (reported for the
\* service rule unless the manufacturer rule matched first); one that has the
\* UUID in upper or mixed case only is a phone only when the manufacturer or
\* the name rule matches.
C10_ServiceRuleLowerCaseOnly ==
    Classified =>
        /\ ServiceMatches(ev.p)
             => /\ ev.stage = "inserted"
                /\ ~VendorMatches(ev.p) => ev.debug = <<"ANCS Service UUID detected">>
        /\ (HasAncsAnyCase(ev.p) /\ ~ServiceMatches(ev.p))
             => ((ev.stage = "inserted") <=> (VendorMatches(ev.p) \/ NameMatches(ev.p)))

\* The UUID in upper case did not make a phone of the advertisement.
C10_Witness ==
    /\ Classified
    /\ ev.stage = "notPhone"
    /\ ev.p.advertisement.serviceUuids = <<ANCS_UPPER>>

-----------------------------------------------------------------------------
(* Properties of the fingerprint *)

\* The canonical fields of an advertisement: the local name or the empty
\* string, the manufacturer payload in hexadecimal or the empty string, the
\* service UUIDs sorted and joined, the kind of address, connectable or not
CanonicalFields(p) ==
    LET ad == p.advertisement IN
    [localName |-> IF ad.localName.t = "string" THEN ad.localName.s ELSE << >>,
     manufacturerPayload |-> IF ad.manufacturerData.t = "buffer"
                             THEN toHex(ad.manufacturerData.b) ELSE << >>,
     serviceIdentifiers |-> join(sort(ad.serviceUuids), <<",">>),
     addressKind |-> p.addressType,
     isConnectable |-> p.connectable]

\* The advertisement with every local name and payload of the inputs, absent
\* ones and empty ones among them, and with another address and signal
NameAndPayloadVariants(p) ==
    { [p EXCEPT !.advertisement.localName = n,
                !.advertisement.manufacturerData = m,
                !.address = a, !.rssi = r] :
        n \in InputNames, m \in InputPayloads, a \in {ADDR_A, ADDR_C}, r \in {-60, 0} }

IsHexString(s) ==
    \A i \in 1..Len(s) : \E h \in 1..16 : HexDigits[h] = s[i]

\* C11: the handler always gets a digest, whatever optional fields are
\* absent; a second call on the advertisement the first call left behind
\* returns the same digest; every advertisement with the canonical fields of
\* the one observed has its digest, so an absent local name and an empty one
\* (an absent payload and an empty one) give one digest; and no component of
\* the hashed message carries an undefined value.
C11_FingerprintDeterministicTotal ==
    ev.op = "discover" =>
        /\ ev.fingerprint = generateDeviceFingerprint(ev.p)
        /\ ev.fingerprint = generateDeviceFingerprint(AfterFingerprint(ev.p))
        /\ \A q \in NameAndPayloadVariants(ev.p) :
               CanonicalFields(q) = CanonicalFields(ev.p)
                 => generateDeviceFingerprint(q) = ev.fingerprint
        /\ LET c == FingerprintComponents(ev.p) IN
           /\ Len(c) = 5
           /\ ev.p.advertisement.localName.t = "undefined" => c[1] = << >>
           /\ ev.p.advertisement.manufacturerData.t = "undefined" => c[2] = << >>
           /\ IsHexString(c[2])
           /\ ev.p.advertisement.serviceUuids = << >> => c[3] = << >>

\* An advertisement without a local name and with an empty payload got a
\* digest.
C11_Witness ==
    /\ ev.op = "discover"
    /\ ev.p.advertisement.localName = Undefined
    /\ ev.p.advertisement.manufacturerData = Buf(<< >>)
    /\ ev.p.advertisement.serviceUuids = << >>
    /\ Len(ev.fingerprint) > 0

\* The arrays that hold the elements of arr in some order
Orderings(arr) ==
    { s \in [1..Len(arr) -> {arr[i] : i \in 1..Len(arr)}] :
        \A x \in {arr[i] : i \in 1..Len(arr)} :
            Cardinality({i \in 1..Len(arr) : s[i] = x})
              = Cardinality({i \in 1..Len(arr) : arr[i] = x}) }

\* C12: the digest does not depend on the order of the service UUIDs: the
\* advertisement observed, with its service UUIDs in any other order, has the
\* digest the handler computed.
C12_FingerprintOrderInsensitive ==
    ev.op = "discover" =>
        \A u \in Orderings(ev.p.advertisement.serviceUuids) :
            generateDeviceFingerprint([ev.p EXCEPT !.advertisement.serviceUuids = u])
              = ev.fingerprint

\* Three service UUIDs were delivered in an order that is not the sorted one,
\* and the digest is that of their sorted order.
C12_Witness ==
    /\ ev.op = "discover"
    /\ ev.p.advertisement.serviceUuids = <<DEVINFO_UUID, ANCS_UPPER, BATTERY_UUID>>
    /\ Cardinality(Orderings(ev.p.advertisement.serviceUuids)) = 6
    /\ ev.fingerprint = generateDeviceFingerprint(
         [ev.p EXCEPT !.advertisement.serviceUuids =
                         <<DEVINFO_UUID, BATTERY_UUID, ANCS_UPPER>>])

\* C13 as claimed: the call leaves the advertisement as it was: the handler
\* goes on with the service UUIDs in the order they were delivered, and the
\* record it sends has them joined in that order.
C13_Original ==
    (ev.op = "discover" /\ ev.stage = "inserted")
    => /\ AfterFingerprint(ev.p) = ev.p
       /\ pending[Len(pending)].service_uuids
            = join(ev.p.advertisement.serviceUuids, <<",">>)

-----------------------------------------------------------------------------
(* Properties of the scheduler *)

\* C14 as claimed: the scheduler is Listening (isScanning, the adapter
\* scanning) or Idle (neither), and within SCAN_INTERVAL of the opening of a
\* period's first scan window the adapter scans for SCAN_WINDOW_DURATION at
\* most.
C14_Original ==
    /\ isScanning \in BOOLEAN
    /\ radioOn = isScanning
    /\ listened.ms <= SCAN_WINDOW_DURATION

\* A call of manageScanCycle from a setInterval timer
TickStep == \E i \in DOMAIN intervals : intervals'[i] = intervals[i] + SCAN_INTERVAL

\* C15: a period tick that comes while the scheduler is Listening changes
\* nothing: the adapter is not started again, the map of seen devices is not
\* swept and no stop timer is added; and the adapter is only ever started
\* when the scheduler is Idle, so one scan window is open at a time.
C15_TickWhileListeningNoOp ==
    [][/\ (TickStep /\ isScanning)
            => /\ ev'.op = "cycle"
               /\ ~ev'.started
               /\ UNCHANGED <<radioOn, isScanning, seenDevices, stopTimers,
                              nobleState, listened, pending, rows>>
       /\ (ev'.op = "cycle" /\ ev'.started /\ now' = now)
            => (~isScanning /\ ~radioOn /\ Len(stopTimers') = Len(stopTimers) + 1)]_vars

\* A period tick fired in an open scan window, with the adapter ready.
C15_Witness ==
    /\ ev.op = "cycle"
    /\ ~ev.started
    /\ nobleState = "poweredOn"
    /\ isScanning
    /\ \E i \in DOMAIN stopTimers : stopTimers[i] > now

\* The deadline of the stop timer of the open scan window: the timer set last
OwnStop == stopTimers[Len(stopTimers)]

\* C16: an open scan window has its stop timer pending, due
\* SCAN_WINDOW_DURATION after the window was opened, and the clock is never
\* past it; a stop timer that fires stops the adapter and leaves the
\* scheduler Idle; and every window that ends within the time covered is
\* closed.
C16_WindowClosed ==
    /\ [](isScanning => /\ stopTimers # << >>
                        /\ OwnStop - SCAN_WINDOW_DURATION <= now
                        /\ now <= OwnStop)
    /\ [][ev'.op = "stop" => (~isScanning' /\ ~radioOn')]_vars
    /\ (isScanning /\ OwnStop <= MaxTime) ~> ~isScanning

\* The stop timer of a window has just fired, SCAN_WINDOW_DURATION after the
\* window was opened, and the scheduler is Idle.
C16_Witness ==
    /\ ev.op = "stop"
    /\ ~isScanning
    /\ ~radioOn
    /\ listened.ms = SCAN_WINDOW_DURATION
    /\ now = listened.since + SCAN_WINDOW_DURATION

\* C17: while the adapter is not poweredOn no scan window is open, and a
\* period tick then changes nothing; the notification that the adapter is
\* poweredOn opens a window at once, with its stop timer, and adds a period
\* timer to those already set; and with the adapter poweredOn a period tick
\* that finds the scheduler Idle opens a window.
C17_RadioReadiness ==
    /\ [](nobleState # "poweredOn" => (~isScanning /\ ~radioOn))
    /\ [][/\ (TickStep /\ nobleState # "poweredOn")
               => /\ ~ev'.started
                  /\ UNCHANGED <<radioOn, isScanning, seenDevices, stopTimers,
                                 nobleState>>
          /\ (nobleState # "poweredOn" /\ nobleState' = "poweredOn")
               => /\ isScanning' /\ radioOn'
                  /\ stopTimers' = Append(stopTimers, now + SCAN_WINDOW_DURATION)
                  /\ intervals' = Append(intervals, now + SCAN_INTERVAL)
          /\ (TickStep /\ nobleState = "poweredOn" /\ ~isScanning)
               => /\ isScanning' /\ radioOn'
                  /\ stopTimers' = Append(stopTimers, now + SCAN_WINDOW_DURATION)]_vars

\* The adapter was switched off and is poweredOn again: a window has just
\* been opened and a second period timer is set.
C17_Witness ==
    /\ nobleState = "poweredOn"
    /\ ev.op = "cycle"
    /\ ev.started
    /\ isScanning
    /\ now > 0
    /\ Len(intervals) = 2
    /\ intervals[2] = now + SCAN_INTERVAL

\* The map without the entries older than DEVICE_MEMORY_DURATION at time t
Swept(map, t) ==
    [f \in {g \in DOMAIN map : t - map[g].timestamp <= DEVICE_MEMORY_DURATION}
       |-> map[f]]

\* C18 as claimed: the map is swept when a scan window is closed: right after
\* the stop timer has fired no entry is older than DEVICE_MEMORY_DURATION.
C18_Original ==
    ev.op = "stop" => seenDevices = Swept(seenDevices, ev.at)

\* C18 (amended): the map is swept when a scan window is opened, together
\* with the start instruction to the adapter, once per window; the stop timer
\* leaves the map as it is, a call of manageScanCycle that opens no window
\* too, and a discovery event removes no entry.
C18_SweepAtWindowOpen ==
    [][/\ (ev'.op = "cycle" /\ ev'.started /\ now' = now)
            => (~radioOn /\ radioOn' /\ seenDevices' = Swept(seenDevices, now))
       /\ (ev'.op = "cycle" /\ ~ev'.started /\ now' = now)
            => seenDevices' = seenDevices
       /\ (ev'.op = "stop" /\ stopTimers' # stopTimers)
            => seenDevices' = seenDevices
       /\ DiscoverStep
            => \A f \in DOMAIN seenDevices :
                 /\ f \in DOMAIN seenDevices'
                 /\ f # ev'.fingerprint => seenDevices'[f] = seenDevices[f]]_vars

\* A window has just been closed and the map keeps an entry older than
\* DEVICE_MEMORY_DURATION.
C18_Witness ==
    /\ ev.op = "stop"
    /\ ~isScanning
    /\ \E f \in DOMAIN seenDevices :
         now - seenDevices[f].timestamp > DEVICE_MEMORY_DURATION

-----------------------------------------------------------------------------
(* Properties of the store *)

\* C19: table scans never holds two rows with one (timestamp, fingerprint);
\* an insert whose (timestamp, fingerprint) is stored already stores nothing
\* and leaves the table as it was, the stored row included; it ends with
\* SQLITE_CONSTRAINT, for which no error line is written, unless the
\* statement fails for another reason.
C19_IdempotentPersistence ==
    /\ [](\A r1, r2 \in rows :
            (r1.timestamp = r2.timestamp /\ r1.fingerprint = r2.fingerprint)
              => r1 = r2)
    /\ [][(/\ ev'.op = "dbRun"
           /\ pending' # pending
           /\ \E r \in rows : /\ r.timestamp = now \div 1000
                              /\ r.fingerprint = Head(pending).fingerprint)
          => /\ rows' = rows
             /\ ev'.code \in {"SQLITE_CONSTRAINT", "SQLITE_ERROR"}
             /\ ev'.logged <=> ev'.code = "SQLITE_ERROR"]_vars

\* A sighting of the device was sent in the second of the stored row, with
\* another signal strength, and the table still holds the stored row alone.
C19_Witness ==
    /\ ev.op = "dbRun"
    /\ ev.code = "SQLITE_CONSTRAINT"
    /\ ~ev.logged
    /\ rows = {EarlierRow}
    /\ ev.params.fingerprint = EarlierRow.fingerprint
    /\ ev.params.rssi # EarlierRow.rssi

\* A step in which sqlite has executed the oldest queued insert
DbRunStep == ev'.op = "dbRun" /\ pending # << >> /\ pending' = Tail(pending)

\* C20: an insert that fails for another reason than the primary key writes
\* an error line and stores nothing; an insert writes no error line only
\* when it has stored its row or has hit the primary key; whatever its
\* outcome, it takes its own statement off the queue and no other, and leaves
\* the scheduler, its timers and the map of seen devices as they are; and a
\* phone that passes the gate afterwards has its record sent as before.
C20_WriteFailureHandling ==
    [][/\ DbRunStep
            => /\ ev'.code \in {"OK", "SQLITE_CONSTRAINT", "SQLITE_ERROR"}
               /\ ev'.logged <=> ev'.code \notin {"OK", "SQLITE_CONSTRAINT"}
               /\ ev'.code = "SQLITE_ERROR" => rows' = rows
               /\ ev'.code = "OK"
                    => /\ rows' # rows
                       /\ rows' = rows \cup {Head(pending)
                                              @@ [timestamp |-> now \div 1000]}
               /\ ~ev'.logged
                    => \E r \in rows' : /\ r.timestamp = now \div 1000
                                        /\ r.fingerprint = Head(pending).fingerprint
               /\ UNCHANGED <<nobleState, radioOn, isScanning, intervals,
                              stopTimers, seenDevices, ignoredDevices>>
       /\ (DiscoverStep /\ Qualifies(ev'.p)
           /\ ~EntryYoungerThanHorizon(seenDevices, ev'.fingerprint, now))
            => /\ ev'.stage = "inserted"
               /\ pending' = Append(pending, pending'[Len(pending')])
               /\ pending'[Len(pending')].fingerprint = ev'.fingerprint]_vars

\* The insert for the Apple device failed and its row was dropped; the
\* record of the Pixel, seen afterwards, has just been stored.
C20_Witness ==
    /\ ev.op = "dbRun"
    /\ ev.code = "OK"
    /\ ev.params.fingerprint = generateDeviceFingerprint(PixelC)
    /\ \E r \in rows : r.fingerprint = generateDeviceFingerprint(PixelC)
    /\ generateDeviceFingerprint(PhoneA) \in DOMAIN seenDevices
    /\ seenDevices[generateDeviceFingerprint(PhoneA)].details.address = ADDR_A
    /\ seenDevices[generateDeviceFingerprint(PhoneA)].timestamp
         <= seenDevices[generateDeviceFingerprint(PixelC)].timestamp
    /\ \A r \in rows : r.fingerprint # generateDeviceFingerprint(PhoneA)
    /\ pending = << >>

-----------------------------------------------------------------------------
(* Properties of the startup *)

\* C21 as claimed: whenever sqlite executes an insert of the handler, table
\* scans exists in the database file.
C21_Original ==
    ev.op = "dbRun" => store.table = ScansTable

\* C22 as claimed: once the database could not be opened, or the table could
\* not be created, the process has exited with a status other than 0.
C22_Original ==
    (store.handle = "failed" \/ store.create = "failed")
    => (process.phase = "exited" /\ process.code # 0)

-----------------------------------------------------------------------------
(* Properties of the error handling *)

\* The outcome of the handler for an advertisement, from the state before
NormalStage(p) ==
    IF EntryYoungerThanHorizon(seenDevices, generateDeviceFingerprint(p), now)
    THEN "suppressed"
    ELSE IF toLowerCase(p.address) \in ignoredDevices THEN "ignored"
    ELSE IF Classify(p).isLikelyPhone THEN "inserted"
    ELSE "notPhone"

\* C23: the handler of an advertisement, whatever optional fields (local
\* name, transmit power, manufacturer data) are absent, and the callback of
\* an insert, whatever its outcome, leave the process running and the
\* scheduler, its timers and the adapter as they are; and every
\* advertisement gets the outcome the gate, the ignore list and the
\* heuristics give it, whatever happened to the ones before.
C23_ErrorsContained ==
    [][(DiscoverStep \/ DbRunStep)
          => /\ process' = process
             /\ process'.phase = "running"
             /\ UNCHANGED <<nobleState, radioOn, isScanning, intervals, stopTimers,
                            store>>
             /\ DiscoverStep => ev'.stage = NormalStage(ev'.p)]_vars

\* The insert for an advertisement without local name and transmit power
\* failed, and the next advertisement, without manufacturer data, has just
\* been handled and its insert sent.
C23_Witness ==
    /\ ev.op = "discover"
    /\ ev.stage = "inserted"
    /\ ev.p = PixelC
    /\ ev.p.advertisement.manufacturerData = Undefined
    /\ generateDeviceFingerprint(PhoneA) \in DOMAIN seenDevices
    /\ seenDevices[generateDeviceFingerprint(PhoneA)].details.address = ADDR_A
    /\ seenDevices[generateDeviceFingerprint(PhoneA)].details.localName = Undefined
    /\ rows = {}
    /\ Len(pending) = 1
    /\ process.phase = "running"
    /\ radioOn

-----------------------------------------------------------------------------
(* The ignore list: files and observed addresses *)

ADDR_A_UPPER == <<"4","A",":","1","0",":","9","C",":","0","0",":","5","E",":","0","1">>
ADDR_C_MIXED == <<"a","A",":","B","b",":","c","C",":","D","D",":","e","e",":","F","f">>
ADDR_A_DASH == <<"4","a","-","1","0","-","9","c","-","0","0","-","5","e","-","0","1">>
ADDR_C_BARE == <<"A","A","B","B","C","C","D","D","E","E","F","F">>
IPHONE_NAME == <<"i","P","h","o","n","e">>

\* Entries as the README shows them (lines 133-145): colon, dash and bare
\* hex, in either letter case
IgnoreEntries ==
    {ADDR_A, ADDR_A_UPPER, ADDR_A_DASH, ADDR_C_MIXED, ADDR_C_BARE, ADDR_D}

\* ignore_list.json as the loader can find it: absent, not JSON, JSON that
\* is not an array, an array with an element that is not a string, and
\* arrays of up to MaxEntries address strings
MaxEntries == 2
StringArrays ==
    UNION { [1..n -> {Str(e) : e \in IgnoreEntries}] : n \in 0..MaxEntries }
MalformedFiles ==
    { [exists |-> FALSE],
      [exists |-> TRUE, json |-> FALSE],
      [exists |-> TRUE, json |-> TRUE, value |-> Str(ADDR_A)],
      [exists |-> TRUE, json |-> TRUE, value |-> [t |-> "object"]],
      [exists |-> TRUE, json |-> TRUE, value |-> Arr(<<Str(ADDR_A), Num(5)>>)],
      [exists |-> TRUE, json |-> TRUE, value |-> Arr(<<Undefined, Str(ADDR_C)>>)] }
IgnoreListFiles ==
    MalformedFiles
      \cup { [exists |-> TRUE, json |-> TRUE, value |-> Arr(a)] : a \in StringArrays }

\* Phones on the addresses of the entries, as noble reports them (lower
\* case, colon separated) and in other letter cases
IgnoreInputs ==
    { Peripheral(<<"a","1">>, ADDR_A, RANDOM, TRUE, -60, Undefined, Undefined,
                 <<>>, Buf(APPLE_PAYLOAD)),
      Peripheral(<<"a","1">>, ADDR_A_UPPER, RANDOM, TRUE, -61, Str(IPHONE_NAME),
                 Undefined, <<>>, Buf(APPLE_PAYLOAD)),
      Peripheral(<<"c","3">>, ADDR_C, PUBLIC, TRUE, -48, Str(PIXEL_7), Undefined,
                 <<>>, Undefined),
      Peripheral(<<"c","3">>, ADDR_C_MIXED, PUBLIC, TRUE, -49, Str(PIXEL_7), Num(4),
                 <<BATTERY_UUID>>, Undefined) }

\* The first scan window after the ignore list has been loaded
InitIgnore ==
    /\ now = 0
    /\ nobleState = "poweredOn"
    /\ radioOn = TRUE
    /\ isScanning = TRUE
    /\ seenDevices = EmptyMap
    /\ unswept = EmptyMap
    /\ ignoreFile \in IgnoreListFiles
    /\ ignoredDevices = LoadIgnoreList(ignoreFile)
    /\ store = StoreReady
    /\ process = ProcessRunning
    /\ reset = ResetIdle
    /\ intervals = <<SCAN_INTERVAL>>
    /\ stopTimers = <<SCAN_WINDOW_DURATION>>
    /\ pending = << >>
    /\ rows = {}
    /\ delivered = 0
    /\ listened = [since |-> 0, ms |-> 0]
    /\ ev = [op |-> "init"]

NextIgnore ==
    \/ \E p \in IgnoreInputs : Discover(p)
    \/ \E fails \in BOOLEAN : DbRun(fails)

SpecIgnore == InitIgnore /\ [][NextIgnore]_vars

-----------------------------------------------------------------------------
(* Properties of the ignore list *)

\* The file holds an array of strings
IsStringArray(file) ==
    /\ file.exists
    /\ file.json
    /\ file.value.t = "array"
    /\ \A i \in 1..Len(file.value.a) : file.value.a[i].t = "string"

\* The strings of such a file
EntriesOf(file) == {file.value.a[i].s : i \in 1..Len(file.value.a)}

\* C24: with a list of address strings, an advertisement that passes the
\* gate is ignored if and only if the lower-case form of its address equals
\* the lower-case form of some entry; so addresses, and entries, that differ
\* only in letter case are treated the same.
C24_IgnoreCaseInsensitive ==
    [][(DiscoverStep /\ IsStringArray(ignoreFile) /\ ev'.stage # "suppressed")
          => (ev'.stage = "ignored"
                <=> \E e \in EntriesOf(ignoreFile) :
                       toLowerCase(e) = toLowerCase(ev'.p.address))]_vars

\* An advertisement was ignored through an entry written in another letter
\* case than its address.
C24_Witness ==
    /\ ev.op = "discover"
    /\ ev.stage = "ignored"
    /\ ev.p.address = ADDR_C
    /\ IsStringArray(ignoreFile)
    /\ EntriesOf(ignoreFile) = {ADDR_C_MIXED}

\* The hexadecimal digits of an address, whatever the separators and the
\* letter case
StripSeparators(s) ==
    toLowerCase(SelectSeq(s, LAMBDA ch : ch \notin {":", "-"}))
SameHardwareAddress(a, b) == StripSeparators(a) = StripSeparators(b)

\* C25 (as stated): an entry in colon, dash or bare hex form makes the
\* advertisements from that hardware address ignored.
C25_Original ==
    [][(DiscoverStep /\ IsStringArray(ignoreFile) /\ ev'.stage # "suppressed"
          /\ \E e \in EntriesOf(ignoreFile) : SameHardwareAddress(e, ev'.p.address))
          => ev'.stage = "ignored"]_vars

\* The file is absent, is not JSON, is not an array, or has an element that
\* is not a string
IsMalformed(file) == ~IsStringArray(file)

\* C26: with an absent or malformed list the ignore set is empty, the
\* process and the scan run, and no advertisement is ignored.
C26_IgnoreLoadNeverFails ==
    IsMalformed(ignoreFile)
        => /\ ignoredDevices = {}
           /\ process = ProcessRunning
           /\ radioOn /\ isScanning
           /\ ev.op = "discover" => ev.stage # "ignored"

\* A list with an address and a number was loaded as empty, and the phone on
\* that address has been inserted.
C26_Witness ==
    /\ ignoreFile.exists /\ ignoreFile.json
    /\ ignoreFile.value = Arr(<<Str(ADDR_A), Num(5)>>)
    /\ ev.op = "discover"
    /\ ev.stage = "inserted"
    /\ ev.p.address = ADDR_A
    /\ ignoredDevices = {}

-----------------------------------------------------------------------------
(* Shutdown (lines 879-897) *)

\* Termination signals delivered to one process
MaxSignals == 2

\* Mutant: the handle is closed at once, without waiting for the adapter
ShutdownClosingAtOnce ==
    /\ Running
    /\ process.waitingStop + process.closing < MaxSignals
    /\ process' = [process EXCEPT !.closing = @ + 1]
    /\ store' = IF store.handle = "open" THEN [store EXCEPT !.handle = "closing"]
                ELSE store
    /\ ev' = [op |-> "signal", scanning |-> radioOn]
    /\ UNCHANGED <<now, nobleState, radioOn, isScanning, seenDevices, ignoredDevices,
                   intervals, stopTimers, pending, rows, delivered, unswept, listened,
                   ignoreFile, reset>>

\* SIGINT or SIGTERM: shutdown() calls noble.stopScanning(callback), which
\* registers the callback for the next scanStop event and sends the stop
\* command to the adapter. Nothing else is done until that event.
Shutdown ==
    /\ Running
    /\ process.waitingStop + process.closing < MaxSignals
    /\ process' = [process EXCEPT !.waitingStop = @ + 1]
    /\ ev' = [op |-> "signal", scanning |-> radioOn]
    /\ UNCHANGED <<now, nobleState, radioOn, isScanning, seenDevices, ignoredDevices,
                   intervals, stopTimers, pending, rows, delivered, unswept, listened,
                   ignoreFile, store, reset>>

\* The adapter confirms the stop: noble emits scanStop and every callback
\* registered by shutdown() calls db.close (lines 884-893). The close is
\* queued behind the statements that have not been executed yet.
ScanStop ==
    /\ Running
    /\ process.waitingStop > 0
    /\ radioOn' = FALSE
    /\ process' = [process EXCEPT !.closing = @ + process.waitingStop,
                                  !.waitingStop = 0]
    /\ store' = IF store.handle = "open" THEN [store EXCEPT !.handle = "closing"]
                ELSE store
    /\ ev' = [op |-> "scanStop", callbacks |-> process.waitingStop]
    /\ UNCHANGED <<now, nobleState, isScanning, seenDevices, ignoredDevices,
                   intervals, stopTimers, pending, rows, delivered, unswept, listened,
                   ignoreFile, reset>>

\* sqlite closes the handle once no statement is left, and the callback of
\* db.close (lines 886-893) prints and calls process.exit(0).
CloseDone ==
    /\ Running
    /\ store.handle = "closing"
    /\ pending = << >>
    /\ store' = [store EXCEPT !.handle = "closed"]
    /\ process' = [process EXCEPT !.phase = "exited", !.code = 0]
    /\ ev' = [op |-> "closed", code |-> 0]
    /\ UNCHANGED <<now, nobleState, radioOn, isScanning, seenDevices, ignoredDevices,
                   intervals, stopTimers, pending, rows, delivered, unswept, listened,
                   ignoreFile, reset>>

\* A scan window in which the process is told to terminate
InitShutdown ==
    /\ now = 0
    /\ nobleState = "poweredOn"
    /\ radioOn = TRUE
    /\ isScanning = TRUE
    /\ seenDevices = EmptyMap
    /\ unswept = EmptyMap
    /\ ignoreFile \in IgnoreFiles
    /\ ignoredDevices = LoadIgnoreList(ignoreFile)
    /\ store = StoreReady
    /\ process = ProcessRunning
    /\ reset = ResetIdle
    /\ intervals = <<SCAN_INTERVAL>>
    /\ stopTimers = <<SCAN_WINDOW_DURATION>>
    /\ pending = << >>
    /\ rows = {}
    /\ delivered = 0
    /\ listened = [since |-> 0, ms |-> 0]
    /\ ev = [op |-> "init"]

NextShutdown ==
    \/ \E p \in Peripherals : Discover(p)
    \/ \E fails \in BOOLEAN : DbRun(fails)
    \/ Shutdown
    \/ ScanStop
    \/ CloseDone

SpecShutdown == InitShutdown /\ [][NextShutdown]_vars

\* The process runs its own callbacks: sqlite executes the queued statements
\* and the close. Whether and when the adapter confirms a stop is not in the
\* hands of the process.
FairShutdown ==
    /\ SpecShutdown
    /\ WF_vars(\E fails \in BOOLEAN : DbRun(fails))
    /\ WF_vars(CloseDone)

-----------------------------------------------------------------------------
(* Properties of the shutdown *)

\* A termination signal has been received
Signalled == process.waitingStop + process.closing > 0

\* C27: a signal only sends the stop instruction to the radio and leaves the
\* store handle alone; the release of the handle is started only by the
\* radio's confirmation of that stop; and the process exits only by the
\* callback of the close, with code 0 and the handle released.
C27_ShutdownOrder ==
    [][/\ ev'.op = "signal"
          => /\ process'.waitingStop = process.waitingStop + 1
             /\ store' = store
             /\ process'.phase = "running"
       /\ (store.handle = "open" /\ store'.handle # "open")
          => /\ ev'.op = "scanStop"
             /\ process.waitingStop > 0
             /\ ~radioOn'
             /\ process'.phase = "running"
       /\ (process.phase = "running" /\ process'.phase = "exited")
          => /\ ev'.op = "closed"
             /\ store'.handle = "closed"
             /\ ~radioOn
             /\ process'.code = 0]_vars

\* The process has exited with code 0 after a signal, the radio's
\* confirmation and the close.
C27_Witness ==
    /\ process.phase = "exited"
    /\ process.code = 0
    /\ store.handle = "closed"
    /\ ~radioOn
    /\ rows # {}

\* C28 (as stated): after a termination signal the process eventually
\* exits, with every write issued before executed.
C28_Original ==
    Signalled ~> (process.phase = "exited" /\ pending = << >>)
-----------------------------------------------------------------------------
(* The reset utility (reset.js, lines 37-87) and a scanner started after it *)

YES == <<"y","e","s">>
Answers ==
    { YES, <<"Y","E","S">>, <<"Y","e","s">>, <<"y">>, <<"n","o">>, << >>,
      <<"y","e","s"," ">>, <<" ","y","e","s">> }

\* A second row of an earlier run
OtherRow ==
    InsertParams(AfterFingerprint(PixelC), generateDeviceFingerprint(PixelC))
      @@ [timestamp |-> 0]

ProcessStopped == [phase |-> "stopped", code |-> 0, waitingStop |-> 0, closing |-> 0]

\* Mutant: the answer compared as typed
AnswerAsTyped(answer) ==
    /\ reset.pc = "asking"
    /\ IF answer = YES
       THEN /\ reset' = [reset EXCEPT !.pc = "opening", !.answer = answer]
            /\ store' = [store EXCEPT !.handle = "opening"]
       ELSE /\ reset' = [reset EXCEPT !.pc = "cancelled", !.answer = answer]
            /\ store' = store
    /\ ev' = [op |-> "answer", answer |-> answer]
    /\ UNCHANGED <<now, nobleState, radioOn, isScanning, seenDevices, ignoredDevices,
                   intervals, stopTimers, pending, rows, delivered, unswept, listened,
                   ignoreFile, process>>

\* The callback of rl.question (lines 38-86): only for an answer whose
\* lower-case form is 'yes' the database is opened; otherwise the utility
\* prints that nothing was deleted and ends.
Answer(answer) ==
    /\ reset.pc = "asking"
    /\ IF toLowerCase(answer) = YES
       THEN /\ reset' = [reset EXCEPT !.pc = "opening", !.answer = answer]
            /\ store' = [store EXCEPT !.handle = "opening"]
       ELSE /\ reset' = [reset EXCEPT !.pc = "cancelled", !.answer = answer]
            /\ store' = store
    /\ ev' = [op |-> "answer", answer |-> answer]
    /\ UNCHANGED <<now, nobleState, radioOn, isScanning, seenDevices, ignoredDevices,
                   intervals, stopTimers, pending, rows, delivered, unswept, listened,
                   ignoreFile, process>>

\* The callback of new sqlite3.Database (lines 41-46): an error ends the
\* utility with code 1; otherwise DELETE FROM scans is issued.
ResetOpen(ok) ==
    /\ reset.pc = "opening"
    /\ reset' = [reset EXCEPT !.pc = IF ok THEN "deleting" ELSE "exit1"]
    /\ store' = [store EXCEPT !.handle = IF ok THEN "open" ELSE "failed"]
    /\ ev' = [op |-> "resetOpen", ok |-> ok]
    /\ UNCHANGED <<now, nobleState, radioOn, isScanning, seenDevices, ignoredDevices,
                   intervals, stopTimers, pending, rows, delivered, unswept, listened,
                   ignoreFile, process>>

\* Mutant: the table is dropped instead of emptied
DropRun(fails) ==
    LET err == fails \/ store.table # ScansTable IN
    /\ reset.pc = "deleting"
    /\ reset' = IF err THEN [reset EXCEPT !.pc = "failed"]
                ELSE [reset EXCEPT !.pc = "vacuum", !.changes = Cardinality(rows)]
    /\ rows' = IF err THEN rows ELSE {}
    /\ store' = IF err THEN store ELSE [store EXCEPT !.table = NoTable]
    /\ ev' = [op |-> "delete", ok |-> ~err]
    /\ UNCHANGED <<now, nobleState, radioOn, isScanning, seenDevices, ignoredDevices,
                   intervals, stopTimers, pending, delivered, unswept, listened,
                   ignoreFile, process>>

\* sqlite executes DELETE FROM scans and calls the callback (lines 52-54):
\* on an error it is printed and nothing follows, the database and the
\* readline interface stay open; otherwise the count is printed and VACUUM
\* is issued.
DeleteRun(fails) ==
    LET err == fails \/ store.table # ScansTable IN
    /\ reset.pc = "deleting"
    /\ reset' = IF err THEN [reset EXCEPT !.pc = "failed"]
                ELSE [reset EXCEPT !.pc = "vacuum", !.changes = Cardinality(rows)]
    /\ rows' = IF err THEN rows ELSE {}
    /\ ev' = [op |-> "delete", ok |-> ~err]
    /\ UNCHANGED <<now, nobleState, radioOn, isScanning, seenDevices, ignoredDevices,
                   intervals, stopTimers, pending, delivered, unswept, listened,
                   ignoreFile, store, process>>

\* The callback of VACUUM (lines 61-70): whatever the outcome, db.close
VacuumRun(ok) ==
    /\ reset.pc = "vacuum"
    /\ reset' = [reset EXCEPT !.pc = "closing"]
    /\ store' = [store EXCEPT !.handle = "closing"]
    /\ ev' = [op |-> "vacuum", ok |-> ok]
    /\ UNCHANGED <<now, nobleState, radioOn, isScanning, seenDevices, ignoredDevices,
                   intervals, stopTimers, pending, rows, delivered, unswept, listened,
                   ignoreFile, process>>

\* The callback of db.close (lines 71-77): rl.close ends the utility
ResetClose ==
    /\ reset.pc = "closing"
    /\ reset' = [reset EXCEPT !.pc = "done"]
    /\ store' = [store EXCEPT !.handle = "closed"]
    /\ ev' = [op |-> "resetClosed"]
    /\ UNCHANGED <<now, nobleState, radioOn, isScanning, seenDevices, ignoredDevices,
                   intervals, stopTimers, pending, rows, delivered, unswept, listened,
                   ignoreFile, process>>

\* scanner.js is started once the utility has ended: the database file is
\* opened as the utility left it.
ScannerStart ==
    /\ process.phase = "stopped"
    /\ reset.pc \in {"done", "cancelled"}
    /\ process' = ProcessRunning
    /\ store' = [handle |-> "opening", table |-> store.table, create |-> "none"]
    /\ ev' = [op |-> "scannerStart"]
    /\ UNCHANGED <<now, nobleState, radioOn, isScanning, seenDevices, ignoredDevices,
                   intervals, stopTimers, pending, rows, delivered, unswept, listened,
                   ignoreFile, reset>>

\* The utility asks its question; no scanner runs. The database file holds
\* table scans with the rows of earlier runs, or no table.
InitReset ==
    /\ now = 0
    /\ nobleState = "unknown"
    /\ radioOn = FALSE
    /\ isScanning = FALSE
    /\ seenDevices = EmptyMap
    /\ unswept = EmptyMap
    /\ ignoreFile \in IgnoreFiles
    /\ ignoredDevices = LoadIgnoreList(ignoreFile)
    /\ intervals = << >>
    /\ stopTimers = << >>
    /\ pending = << >>
    /\ delivered = 0
    /\ listened = [since |-> 0, ms |-> 0]
    /\ \/ /\ store = [handle |-> "closed", table |-> ScansTable, create |-> "none"]
          /\ rows \in {{}, {EarlierRow}, {EarlierRow, OtherRow}}
       \/ /\ store = [handle |-> "closed", table |-> NoTable, create |-> "none"]
          /\ rows = {}
    /\ process = ProcessStopped
    /\ reset = [pc |-> "asking", answer |-> << >>, changes |-> 0]
    /\ ev = NoEvent

NextReset ==
    \/ \E answer \in Answers : Answer(answer)
    \/ \E ok \in BOOLEAN : ResetOpen(ok)
    \/ \E fails \in BOOLEAN : DeleteRun(fails)
    \/ \E ok \in BOOLEAN : VacuumRun(ok)
    \/ ResetClose
    \/ ScannerStart
    \/ \E ok \in BOOLEAN : DbOpen(ok)
    \/ \E ok \in BOOLEAN : CreateRun(ok)
    \/ StateChange("poweredOn")
    \/ \E p \in Peripherals : Discover(p)
    \/ \E fails \in BOOLEAN : DbRun(fails)

SpecReset == InitReset /\ [][NextReset]_vars

-----------------------------------------------------------------------------
(* Properties of the reset utility *)

\* C29: the question's callback opens the store exactly when the lower-case
\* form of the answer is 'yes' and otherwise ends the utility with store and
\* records untouched; and a record disappears only by the utility's DELETE,
\* which runs only after such an answer.
C29_ResetConfirmation ==
    [][/\ ev'.op = "answer"
          => IF toLowerCase(reset'.answer) = YES
             THEN reset'.pc = "opening" /\ store'.handle = "opening" /\ rows' = rows
             ELSE reset'.pc = "cancelled" /\ store' = store /\ rows' = rows
       /\ ~(rows \subseteq rows')
          => /\ ev'.op = "delete"
             /\ toLowerCase(reset.answer) = YES
       /\ reset'.pc \notin {"asking", "cancelled"}
          => toLowerCase(reset'.answer) = YES
       /\ (reset.pc = "cancelled" /\ process'.phase = "stopped")
          => store' = store /\ store.handle = "closed"]_vars

\* The answer 'YES' has deleted the two records of the table.
C29_Witness ==
    /\ ev.op = "delete"
    /\ ev.ok
    /\ reset.answer = <<"Y","E","S">>
    /\ reset.changes = 2
    /\ rows = {}

\* C30: no step of the utility changes table scans, its columns or its
\* primary key; when the utility has run to its end the table is there and
\* holds no row until a scanner inserts one, and it stays there when the
\* scanner is started afterwards.
C30_ResetPreservesSchema ==
    [][/\ reset' # reset => store'.table = store.table
       /\ reset'.pc = "done"
          => /\ store'.table = ScansTable
             /\ process'.phase = "stopped" => rows' = {}]_vars

\* After a reset that deleted a record, a scanner has been started and has
\* stored a sighting before its own CREATE TABLE was executed.
C30_Witness ==
    /\ reset.pc = "done"
    /\ reset.changes > 0
    /\ process.phase = "running"
    /\ store.create \in {"none", "queued"}
    /\ store.table = ScansTable
    /\ ev.op = "dbRun"
    /\ ev.code = "OK"
    /\ rows # {}

-----------------------------------------------------------------------------
(* Properties of the handler's control flow *)

\* C31: a row is added only by the execution of the oldest queued insert; an
\* insert is queued only by the handler, for an advertisement that passed
\* the gate, whose lower-case address is not on the ignore list and that the
\* heuristics mark as a phone, with the fields of that advertisement; and no
\* queued insert and no row carries an address of the ignore list.
C31_StoreProvenance ==
    [][/\ rows' # rows
          => /\ ev'.op = "dbRun"
             /\ pending # << >>
             /\ rows' = rows \cup {Head(pending) @@ [timestamp |-> now \div 1000]}
       /\ (pending' # pending /\ ev'.op # "dbRun")
          => /\ DiscoverStep
             /\ pending' = Append(pending, InsertParams(AfterFingerprint(ev'.p),
                                                        ev'.fingerprint))
             /\ ~EntryYoungerThanHorizon(seenDevices, ev'.fingerprint, now)
             /\ toLowerCase(ev'.p.address) \notin ignoredDevices
             /\ VendorMatches(ev'.p) \/ ServiceMatches(ev'.p) \/ NameMatches(ev'.p)
       /\ \A r \in rows' : toLowerCase(r.address) \notin ignoredDevices
       /\ \A i \in 1..Len(pending') :
             toLowerCase(pending'[i].address) \notin ignoredDevices]_vars

\* An advertisement of a phone on an ignored address has been handled and a
\* record of another phone has been stored: the table holds no row of the
\* ignored address.
C31_Witness ==
    /\ rows # {}
    /\ ignoredDevices # {}
    /\ \E f \in DOMAIN seenDevices :
          /\ toLowerCase(seenDevices[f].details.address) \in ignoredDevices
          /\ \A r \in rows : r.address # seenDevices[f].details.address

\* C32: an advertisement whose digest has no entry younger than
\* DEVICE_MEMORY_DURATION gets the entry of its digest set to the current
\* time and its own details before the ignore list and the heuristics are
\* consulted, whatever they then decide; an advertisement whose digest has a
\* younger entry is suppressed, whatever had become of the advertisement
\* that made the entry, and changes nothing.
C32_GateBeforeIgnoreAndClassifier ==
    [][DiscoverStep =>
        LET fp == ev'.fingerprint
            p == ev'.p
        IN IF EntryYoungerThanHorizon(seenDevices, fp, now)
           THEN /\ ev'.stage = "suppressed"
                /\ seenDevices' = seenDevices
                /\ pending' = pending
           ELSE /\ ev'.stage \in {"ignored", "notPhone", "inserted"}
                /\ toLowerCase(p.address) \in ignoredDevices => ev'.stage = "ignored"
                /\ fp \in DOMAIN seenDevices'
                /\ seenDevices'[fp].timestamp = now
                /\ seenDevices'[fp].details.address = p.address
                /\ \A f \in DOMAIN seenDevices \ {fp} :
                      f \in DOMAIN seenDevices' /\ seenDevices'[f] = seenDevices[f]]_vars

\* The advertisement of a phone is suppressed because of the entry that an
\* advertisement from an ignored address made less than
\* DEVICE_MEMORY_DURATION before; nothing was persisted.
C32_Witness ==
    /\ ev.op = "discover"
    /\ ev.stage = "suppressed"
    /\ toLowerCase(ev.p.address) \notin ignoredDevices
    /\ toLowerCase(seenDevices[ev.fingerprint].details.address) \in ignoredDevices
    /\ rows = {}
    /\ pending = << >>


\* C33 (as stated): the insert of a sighting carries the address as
\* observed, the address type, the connectable flag and the signal strength
\* of the advertisement, whatever their values, and the absent marker for
\* an absent local name or manufacturer data.
C33_Original ==
    (ev.op = "discover" /\ ev.stage = "inserted")
    => LET r == pending[Len(pending)]
           ad == ev.p.advertisement
       IN /\ r.address = ev.p.address
          /\ r.address_type = Str(ev.p.addressType)
          /\ r.connectable = Bool(ev.p.connectable)
          /\ r.rssi = Num(ev.p.rssi)
          /\ ad.localName = Undefined => r.local_name = Str(NA)
          /\ ad.manufacturerData = Undefined => r.manufacturer_data = NA


-----------------------------------------------------------------------------
(* Properties of the timers *)

\* C35 (as stated): at most one period timer is live, however often the
\* adapter has reported poweredOn.
C35_Original == Len(intervals) <= 1


\* The first scan window, half over: the adapter reported poweredOn at time
\* 0, manageScanCycle opened the window and set the two timers.
InitMidWindow ==
    /\ now = SCAN_WINDOW_DURATION \div 2
    /\ nobleState = "poweredOn"
    /\ radioOn = TRUE
    /\ isScanning = TRUE
    /\ seenDevices = EmptyMap
    /\ unswept = EmptyMap
    /\ ignoreFile \in IgnoreFiles
    /\ ignoredDevices = LoadIgnoreList(ignoreFile)
    /\ store = StoreReady
    /\ process = ProcessRunning
    /\ reset = ResetIdle
    /\ intervals = <<SCAN_INTERVAL>>
    /\ stopTimers = <<SCAN_WINDOW_DURATION>>
    /\ pending = << >>
    /\ rows = {}
    /\ delivered = 0
    /\ listened = ListenedUntil([since |-> 0, ms |-> 0], 0,
                                SCAN_WINDOW_DURATION \div 2, TRUE)
    /\ ev = NoEvent

SpecMidWindow == InitMidWindow /\ [][NextSched]_vars

\* C36 (as stated): a stop timer that fires while a scan window is open is
\* the timer of that window, so the window has lasted SCAN_WINDOW_DURATION.
C36_Original ==
    [][(ev'.op = "stop" /\ isScanning) => OwnStop <= now]_vars


-----------------------------------------------------------------------------
(* Properties of the sweep *)

\* C34: the cleanup of a scan cycle removes the entries whose timestamp is
\* before now - DEVICE_MEMORY_DURATION and leaves every other entry as it
\* is; the map is at all times the never-swept map restricted to the entries
\* kept; and the gate decides for every advertisement as it would on the
\* never-swept map, so that the inserts sent are the same with and without
\* the sweeps.
C34_SweepTransparent ==
    [][/\ (ev'.op = "cycle" /\ ev'.started)
          => /\ DOMAIN seenDevices'
                  = {f \in DOMAIN seenDevices :
                       seenDevices[f].timestamp >= now - DEVICE_MEMORY_DURATION}
             /\ \A f \in DOMAIN seenDevices' : seenDevices'[f] = seenDevices[f]
             /\ unswept' = unswept
       /\ \A f \in DOMAIN seenDevices' :
             f \in DOMAIN unswept' /\ unswept'[f] = seenDevices'[f]
       /\ DiscoverStep
          => /\ (ev'.stage = "suppressed")
                  <=> EntryYoungerThanHorizon(unswept, ev'.fingerprint, now)
             /\ unswept'[ev'.fingerprint] = seenDevices'[ev'.fingerprint]]_vars

\* After a sweep has removed the entry of one device, an advertisement of
\* another device has passed the gate and its insert has been sent.
C34_Witness ==
    /\ ev.op = "discover"
    /\ ev.stage = "inserted"
    /\ DOMAIN unswept # DOMAIN seenDevices
    /\ \E f \in DOMAIN unswept \ DOMAIN seenDevices :
          unswept[f].timestamp < now - DEVICE_MEMORY_DURATION


-----------------------------------------------------------------------------
(* The scheduler and a shutdown *)

\* The scheduler's timers go on while the process waits for the adapter to
\* confirm the stop and for sqlite to close the handle.
NextSchedShutdown ==
    \/ Tick
    \/ \E state \in NobleStates : StateChange(state)
    \/ \E i \in DOMAIN intervals : IntervalFire(i)
    \/ \E i \in DOMAIN stopTimers : StopFire(i)
    \/ Shutdown
    \/ ScanStop
    \/ CloseDone

SpecSchedShutdown == Init /\ [][NextSchedShutdown]_vars

\* C37 (as stated): once a termination signal has been received no period
\* tick opens a scan window or tells the adapter to start, and no insert is
\* sent once the handle is closed.
C37_Original ==
    [][/\ (Signalled /\ TickStep)
          => /\ ~(ev'.op = "cycle" /\ ev'.started)
             /\ ~(~radioOn /\ radioOn')
       /\ store.handle = "closed" => pending' = pending]_vars

-----------------------------------------------------------------------------
(* Advertisements outside the scan windows *)

\* The adapter scans without this process's scheduler having opened a
\* window: another process on the host has started a scan on the same
\* adapter. noble emits 'discover' for every report of the adapter, and the
\* handler is registered for all of them (line 751).
ForeignScan ==
    /\ Running
    /\ nobleState = "poweredOn"
    /\ ~isScanning
    /\ ~radioOn
    /\ radioOn' = TRUE
    /\ ev' = [op |-> "foreignScan", at |-> now]
    /\ UNCHANGED <<now, nobleState, isScanning, seenDevices, ignoredDevices, lifecycle,
                   intervals, stopTimers, pending, rows, delivered, unswept, listened>>

NextForeign ==
    \/ Tick
    \/ StateChange("poweredOn")
    \/ \E i \in DOMAIN intervals : IntervalFire(i)
    \/ \E i \in DOMAIN stopTimers : StopFire(i)
    \/ ForeignScan
    \/ \E p \in Peripherals : Discover(p)
    \/ \E fails \in BOOLEAN : DbRun(fails)

SpecForeign == Init /\ [][NextForeign]_vars

\* C38 (as stated): an advertisement delivered while the scheduler is Idle
\* changes neither the map nor the store.
C38_Original ==
    [][(DiscoverStep /\ ~isScanning)
          => /\ seenDevices' = seenDevices
             /\ pending' = pending
             /\ rows' = rows]_vars


-----------------------------------------------------------------------------
(* Termination of the reset utility *)

\* The utility has no callback left to run: it has ended (done, cancelled,
\* exit with code 1) or it waits, after a failed DELETE, with the database
\* and the readline interface open.
ResetAtRest == reset.pc \in {"done", "cancelled", "exit1", "failed"}

\* C39 (as stated): when the utility has nothing left to run after a
\* confirmed reset, whatever the outcome of DELETE and VACUUM, the database
\* connection is closed and the prompt is closed.
C39_Original ==
    (ResetAtRest /\ process.phase = "stopped" /\ toLowerCase(reset.answer) = YES)
    => store.handle \in {"closed", "failed"}

====
